---------------------------- MODULE Spec2Model ----------------------------
(***************************************************************************)
(* Fuzzy-inference and analytics engine of happy_kids                      *)
(* (accounts/fuzzy_logic.py, accounts/diagnostic_panel.py).                *)
(*                                                                         *)
(* Numbers.  Python floats are modelled as exact rationals <<n, d>> in     *)
(* lowest terms with d > 0.  A division by zero yields the value Raised    *)
(* (denominator 0), which stands for the ZeroDivisionError the interpreter *)
(* would raise.  Breakpoints, inputs and catalog thresholds live on a      *)
(* grid of tenths: the integer k stands for k/10.                          *)
(***************************************************************************)
EXTENDS Integers, Sequences, FiniteSets, TLC

VARIABLES
    mf,             \* membership_function of a FuzzySet: [a, b, c] or [a, b, c, d]
    x,              \* the crisp value handed to membership / compute_membership
    fs_mu,          \* result of FuzzySet.membership(x)
    cm_mu,          \* result of compute_membership(mf, x)
    profile_data,   \* kwargs of generate_recommendations_with_diagnoses
    catalog,        \* DiagnosticDiagnosis.objects.all()
    matched,        \* result of _match_diagnoses: sequence of (diag, degree)
    prev_matched,   \* result of the preceding _match_diagnoses call
    detected_codes, \* first component of generate_recommendations_with_diagnoses
    recommendations,\* its second component, as the list of blocks it joins
    game_results,   \* the record list handed to the analysers
    permuted,       \* the same records in another order
    emotions,       \* result of analyze_emotions(game_results)
    metrics,        \* result of extract_game_metrics(game_results)
    metrics_perm,   \* result of extract_game_metrics(permuted)
    scored,         \* results of the five calculate_* functions
    stored,         \* the DiagnosticProfile row written by create_diagnostic_profile
    profiles,       \* DiagnosticProfile.objects.filter(child=child)
    dynamics,       \* result of get_dynamics_data(game_results)
    correlation,    \* result of get_correlation_matrix(game_results)
    heatmap,        \* result of get_heatmap_data(game_results, profile)
    params_results, \* params_results of get_fuzzy_analysis_for_panel(game_results)
    strategies,     \* the votes analyze_strategy collected in its loop
    cognitive_style,\* result of analyze_strategy(game_results)
    trends,         \* result of detect_emotional_trends(game_results)
    trends_perm,    \* result of detect_emotional_trends(permuted)
    pc              \* which operations have run

mfVars      == <<mf, x, fs_mu, cm_mu>>
matchVars   == <<profile_data, catalog, matched, prev_matched, detected_codes, recommendations>>
recordVars  == <<game_results, permuted, emotions, metrics, metrics_perm>>
profileVars == <<scored, stored, profiles>>
panelVars   == <<dynamics, correlation, heatmap, params_results, strategies, cognitive_style, trends, trends_perm>>
vars        == <<mfVars, matchVars, recordVars, profileVars, panelVars, pc>>

---------------------------------------------------------------------------
(* Bounds of the model *)

MaxBreak == 10      \* breakpoints and inputs range over 0..MaxBreak tenths

---------------------------------------------------------------------------
(* Exact arithmetic standing for the interpreter's float arithmetic *)

Abs(n) == IF n < 0 THEN -n ELSE n

RECURSIVE GCD(_, _)
GCD(m, n) == IF n = 0 THEN m ELSE GCD(n, m % n)

Raised == <<1, 0>>      \* ZeroDivisionError
None   == <<0, 0>>      \* not computed yet

IsNum(q) == q[2] > 0

\* n / d as Python evaluates it
Div(n, d) ==
    IF d = 0 THEN Raised
    ELSE LET g == GCD(Abs(n), Abs(d))
             s == IF d < 0 THEN -1 ELSE 1
         IN  <<(s * n) \div g, (s * d) \div g>>

Num(n) == <<n, 1>>

QDiv(p, q) ==
    IF ~IsNum(p) \/ ~IsNum(q) THEN Raised ELSE Div(p[1] * q[2], p[2] * q[1])
QAdd(p, q) ==
    IF ~IsNum(p) \/ ~IsNum(q) THEN Raised
    ELSE Div(p[1] * q[2] + q[1] * p[2], p[2] * q[2])
QSub(p, q) ==
    IF ~IsNum(p) \/ ~IsNum(q) THEN Raised
    ELSE Div(p[1] * q[2] - q[1] * p[2], p[2] * q[2])
QMul(p, q) ==
    IF ~IsNum(p) \/ ~IsNum(q) THEN Raised ELSE Div(p[1] * q[1], p[2] * q[2])
QLe(p, q) == p[1] * q[2] <= q[1] * p[2]
QLt(p, q) == p[1] * q[2] < q[1] * p[2]
QNeg(p)   == <<-p[1], p[2]>>
QMin(p, q) ==
    IF ~IsNum(p) \/ ~IsNum(q) THEN Raised ELSE IF QLe(p, q) THEN p ELSE q
QMax(p, q) ==
    IF ~IsNum(p) \/ ~IsNum(q) THEN Raised ELSE IF QLe(q, p) THEN p ELSE q

Zero == Num(0)
One  == Num(1)

\* a decimal literal with one digit after the point, k/10
Tenths(k) == Div(k, 10)
\* a decimal literal with two digits after the point, k/100
Hundredths(k) == Div(k, 100)

In01(q) == IsNum(q) /\ QLe(Zero, q) /\ QLe(q, One)

---------------------------------------------------------------------------
(* 4.1 MembershipFunction: FuzzySet and compute_membership *)

\* FuzzySet.__init__: the 3-point form is normalised to d = c
Breakpoints(m) ==
    IF Len(m) = 3 THEN <<m[1], m[2], m[3], m[3]>> ELSE <<m[1], m[2], m[3], m[4]>>

\* a breakpoint list in tenths as the numbers it stands for, the 3-point
\* form normalised
QBreakpoints(m) == [i \in 1..4 |-> Tenths(Breakpoints(m)[i])]

\* a plausible slip: the outer guard is missing, so the ramps run past a and d
membership_unguarded(m, v) ==
    LET p == QBreakpoints(m)
        a == p[1]  b == p[2]  c == p[3]  d == p[4]
    IN  IF QLt(v, b) THEN QDiv(QSub(v, a), QSub(b, a))
        ELSE IF QLe(b, v) /\ QLe(v, c) THEN One
        ELSE QDiv(QSub(d, v), QSub(d, c))

\* FuzzySet.membership
membership(m, v) ==
    LET p == QBreakpoints(m)
        a == p[1]  b == p[2]  c == p[3]  d == p[4]
    IN  IF QLe(v, a) \/ QLe(d, v) THEN Zero
        ELSE IF QLt(a, v) /\ QLt(v, b)
             THEN (IF b # a THEN QDiv(QSub(v, a), QSub(b, a)) ELSE One)
        ELSE IF QLe(b, v) /\ QLe(v, c) THEN One
        ELSE IF QLt(c, v) /\ QLt(v, d)
             THEN (IF d # c THEN QDiv(QSub(d, v), QSub(d, c)) ELSE One)
        ELSE Zero

\* diagnostic_panel.compute_membership
compute_membership(m, v) ==
    LET a == Tenths(m[1])  b == Tenths(m[2])  c == Tenths(m[3])
        d == IF Len(m) = 3 THEN Tenths(m[3]) ELSE Tenths(m[4])
    IN  IF QLe(v, a) \/ QLe(d, v) THEN Zero
        ELSE IF QLt(a, v) /\ QLt(v, b)
             THEN (IF b # a THEN QDiv(QSub(v, a), QSub(b, a)) ELSE One)
        ELSE IF QLe(b, v) /\ QLe(v, c) THEN One
        ELSE IF QLt(c, v) /\ QLt(v, d)
             THEN (IF d # c THEN QDiv(QSub(d, v), QSub(d, c)) ELSE One)
        ELSE Zero

Grid == 0..MaxBreak

\* valid membership functions: 3 or 4 ordered breakpoints
ValidMF ==
    {m \in [1..3 -> Grid] : m[1] <= m[2] /\ m[2] <= m[3]}
    \cup {m \in [1..4 -> Grid] : m[1] <= m[2] /\ m[2] <= m[3] /\ m[3] <= m[4]}

IdleMF == mf = <<>> /\ x = 0 /\ fs_mu = None /\ cm_mu = None
IdleMatch ==
    /\ profile_data = <<>> /\ catalog = <<>> /\ matched = <<>>
    /\ prev_matched = <<>> /\ detected_codes = <<>> /\ recommendations = <<>>
IdleRecords ==
    /\ game_results = <<>> /\ permuted = <<>> /\ emotions = <<>>
    /\ metrics = <<>> /\ metrics_perm = <<>>
IdleProfile == scored = <<>> /\ stored = <<>> /\ profiles = <<>>
IdlePanel ==
    /\ dynamics = <<>> /\ correlation = <<>> /\ heatmap = <<>>
    /\ params_results = <<>>
    /\ strategies = <<>> /\ cognitive_style = ""
    /\ trends = <<>> /\ trends_perm = <<>>

InitMF ==
    /\ mf \in ValidMF
    /\ x \in -1..(MaxBreak + 1)
    /\ fs_mu = None /\ cm_mu = None
    /\ IdleMatch /\ IdleRecords /\ IdleProfile /\ IdlePanel
    /\ pc = "mf"

\* FuzzySet(name, mf).membership(x)
Membership ==
    /\ pc = "mf" /\ fs_mu = None
    /\ fs_mu' = membership(mf, Tenths(x))
    /\ UNCHANGED <<mf, x, cm_mu, matchVars, recordVars, profileVars, panelVars, pc>>

\* compute_membership(mf, x)
ComputeMembership ==
    /\ pc = "mf" /\ cm_mu = None
    /\ cm_mu' = compute_membership(mf, Tenths(x))
    /\ UNCHANGED <<mf, x, fs_mu, matchVars, recordVars, profileVars, panelVars, pc>>

NextMF == Membership \/ ComputeMembership
SpecMF == InitMF /\ [][NextMF]_vars

---------------------------------------------------------------------------
(* Claims about the membership functions *)

BpA == Breakpoints(mf)[1]
BpB == Breakpoints(mf)[2]
BpC == Breakpoints(mf)[3]
BpD == Breakpoints(mf)[4]

\* C1: for b <= x <= c the membership degree is 1, also at the degenerate
\* boundaries x = a = b and x = c = d, for both implementations.
C1_PlateauIsOne ==
    (pc = "mf" /\ BpB <= x /\ x <= BpC) =>
        /\ (fs_mu # None => fs_mu = One)
        /\ (cm_mu # None => cm_mu = One)

\* the term [0, 0, 0.3, 0.4] evaluated at x = 0 by both implementations
C1_Reached ==
    /\ pc = "mf" /\ mf = <<0, 0, 3, 4>> /\ x = 0
    /\ fs_mu # None /\ cm_mu # None

\* the value a ramp must have: mu * den = num, without dividing
OnRamp(mu, num, den) == IsNum(mu) /\ den # 0 /\ mu[1] * den = num * mu[2]

C2_Shape(mu) ==
    mu # None =>
        /\ mu # Raised
        /\ In01(mu)
        /\ (x < BpA \/ x > BpD) => mu = Zero
        /\ (BpA < x /\ x < BpB) => OnRamp(mu, x - BpA, BpB - BpA)
        /\ (BpC < x /\ x < BpD) => OnRamp(mu, BpD - x, BpD - BpC)

\* C2: membership(x) is in [0,1], is 0 below a and above d, is the linear
\* ramp (x-a)/(b-a) on (a,b) and (d-x)/(d-c) on (c,d), and never divides by
\* zero; for FuzzySet.membership and for compute_membership.
C2_MembershipShape == pc = "mf" => (C2_Shape(fs_mu) /\ C2_Shape(cm_mu))

\* both implementations evaluated strictly inside a left ramp
C2_Reached ==
    /\ pc = "mf" /\ BpA < x /\ x < BpB
    /\ fs_mu # None /\ cm_mu # None
    /\ QLt(Zero, fs_mu) /\ QLt(fs_mu, One)

---------------------------------------------------------------------------
(* 4.7 DiagnosisMatcher: FuzzyAnalyzer._match_diagnoses                    *)
(*                                                                         *)
(* Degrees and thresholds are drawn from the grid k/Unit, k in 0..Unit.    *)
(* A condition key is kept as the list key.split('.') yields.              *)

Unit    == 2        \* grid resolution of degrees: the values k/Unit
MaxCond == 2        \* conditions per catalog entry

\* a profile variable holding a dict of term -> degree
DictVar(d) == [is_dict |-> TRUE, dict |-> d, label |-> ""]
\* a profile variable holding a label (cognitive_style)
LabelVar(s) == [is_dict |-> FALSE, dict |-> <<>>, label |-> s]
\* a dict entry that holds a dict itself, not a number
Mapping == <<2, 0>>

\* a plausible slip: the comparison with the threshold is inverted
Satisfies_inverted(val, threshold) == QLe(val, threshold)

\* line 740: val >= threshold
Satisfies(val, threshold) == QLe(threshold, val)

\* lines 735-739: the value a well-formed condition reads from the profile
ConditionValue(P, var_name, term) ==
    IF var_name \notin DOMAIN P
    THEN Zero                       \* profile_data.get(var_name, {}).get(term, 0)
    ELSE IF P[var_name].is_dict
         THEN (IF term \in DOMAIN P[var_name].dict
               THEN P[var_name].dict[term] ELSE Zero)
         ELSE (IF P[var_name].label = term THEN One ELSE Zero)

\* a plausible slip: a malformed key eliminates the entry instead of being skipped
RECURSIVE MinMatch_strict(_, _, _, _)
MinMatch_strict(P, conditions, i, min_match) ==
    IF i > Len(conditions) THEN min_match
    ELSE LET parts     == conditions[i][1]
             threshold == conditions[i][2]
         IN  IF Len(parts) # 2 THEN Zero
             ELSE LET val == ConditionValue(P, parts[1], parts[2])
                  IN  IF ~IsNum(val) THEN Raised
                      ELSE IF Satisfies(val, threshold)
                      THEN MinMatch_strict(P, conditions, i + 1, QMin(min_match, val))
                      ELSE Zero

\* a plausible slip: the degree is the last satisfied value, not the minimum
RECURSIVE MinMatch_last(_, _, _, _)
MinMatch_last(P, conditions, i, min_match) ==
    IF i > Len(conditions) THEN min_match
    ELSE LET parts     == conditions[i][1]
             threshold == conditions[i][2]
         IN  IF Len(parts) # 2 THEN MinMatch_last(P, conditions, i + 1, min_match)
             ELSE LET val == ConditionValue(P, parts[1], parts[2])
                  IN  IF ~IsNum(val) THEN Raised
                      ELSE IF Satisfies(val, threshold)
                      THEN MinMatch_last(P, conditions, i + 1, val)
                      ELSE Zero

\* lines 729-744: the loop over conditions.items(), from condition i on
RECURSIVE MinMatch(_, _, _, _)
MinMatch(P, conditions, i, min_match) ==
    IF i > Len(conditions) THEN min_match
    ELSE LET parts     == conditions[i][1]
             threshold == conditions[i][2]
         IN  IF Len(parts) # 2 THEN MinMatch(P, conditions, i + 1, min_match)
             ELSE LET val == ConditionValue(P, parts[1], parts[2])
                  IN  IF ~IsNum(val) THEN Raised     \* TypeError: dict >= float
                      ELSE IF Satisfies(val, threshold)
                      THEN MinMatch(P, conditions, i + 1, QMin(min_match, val))
                      ELSE Zero   \* min_match = 0; break

\* lines 724-746: the list `matched` before it is sorted
RECURSIVE Collect(_, _, _)
Collect(P, diags, i) ==
    IF i > Len(diags) THEN <<>>
    ELSE LET diag      == diags[i]
             min_match == MinMatch(P, diag.fuzzy_conditions, 1, One)
         IN  IF diag.fuzzy_conditions = <<>> THEN Collect(P, diags, i + 1)
             ELSE IF QLt(Zero, min_match)
                  THEN <<[diag |-> diag, score |-> min_match]>> \o Collect(P, diags, i + 1)
                  ELSE Collect(P, diags, i + 1)

\* a plausible slip: the sign of the degree is lost, the sort ascends
SortKeyLe_ascending(m1, m2) ==
    \/ QLt(m1.score, m2.score)
    \/ m1.score = m2.score /\ m1.diag.priority <= m2.diag.priority

\* line 747: key(m1) <= key(m2) for key = (-score, priority)
SortKeyLe(m1, m2) ==
    \/ QLt(QNeg(m1.score), QNeg(m2.score))
    \/ QNeg(m1.score) = QNeg(m2.score) /\ m1.diag.priority <= m2.diag.priority

\* sorted() is stable: e goes behind every element whose key is <= its own
RECURSIVE InsertSorted(_, _)
InsertSorted(s, e) ==
    IF s = <<>> THEN <<e>>
    ELSE IF SortKeyLe(Head(s), e) THEN <<Head(s)>> \o InsertSorted(Tail(s), e)
         ELSE <<e>> \o s

RECURSIVE Sorted(_, _)
Sorted(s, n) == IF n = 0 THEN <<>> ELSE InsertSorted(Sorted(s, n - 1), s[n])

\* _match_diagnoses leaves by an exception: some entry's loop reaches a
\* condition whose profile value is not a number
match_raises(P, diags) ==
    \E i \in 1..Len(diags) : MinMatch(P, diags[i].fuzzy_conditions, 1, One) = Raised

\* FuzzyAnalyzer._match_diagnoses
match_diagnoses(P, diags) ==
    LET found == Collect(P, diags, 1) IN Sorted(found, Len(found))

\* lines 751-761: detected_codes
CodesOf(m) == [i \in 1..Len(m) |-> m[i].diag.code]

---------------------------------------------------------------------------
(* 4.8 RecommendationAssembler:                                            *)
(* FuzzyAnalyzer.generate_recommendations_with_diagnoses                   *)
(*                                                                         *)
(* The text is kept as the list of blocks that "\n\n".join puts together;  *)
(* a block is named by its heading.  The terms of an axis are called low,  *)
(* medium and high, the emotions by their model fields.                    *)

\* kwargs.get(name, {}): the dict under a keyword, {} when it is not passed
KwDict(K, name) ==
    IF name \in DOMAIN K /\ K[name].is_dict THEN K[name].dict ELSE <<>>

\* kwargs.get('cognitive_style', 'unknown')
KwStyle(K) ==
    IF "cognitive_style" \in DOMAIN K THEN K["cognitive_style"].label ELSE "unknown"

\* d.get(term, 0)
DictGet(d, term) == IF term \in DOMAIN d THEN d[term] ELSE Zero

Block(kind, id) == [kind |-> kind, id |-> id]

\* FuzzyAnalyzer._generate_boundary_analysis(**kwargs)
generate_boundary_analysis(K) ==
    LET emotional        == KwDict(K, "emotional_profile")
        motivational     == KwDict(K, "motivational_potential")
        diagnostic_depth == KwDict(K, "diagnostic_depth")
        style            == KwStyle(K)
        sorrow  == DictGet(emotional, "sorrow")
        anger   == DictGet(emotional, "anger")
        boredom == DictGet(emotional, "boredom")
        low_mot == DictGet(motivational, "low")
    IN  (IF QLe(Tenths(5), sorrow) THEN <<Block("boundary", "sorrow >= 50%")>>
         ELSE IF QLe(Hundredths(35), sorrow) THEN <<Block("boundary", "sorrow 35-50%")>>
         ELSE <<>>)
        \o (IF QLe(Tenths(5), anger) THEN <<Block("boundary", "anger >= 50%")>>
            ELSE IF QLe(Tenths(3), anger) THEN <<Block("boundary", "anger 30-50%")>>
            ELSE <<>>)
        \o (IF QLe(Tenths(5), boredom) THEN <<Block("boundary", "boredom >= 50%")>>
            ELSE IF QLe(Hundredths(35), boredom) THEN <<Block("boundary", "boredom 35-50%")>>
            ELSE <<>>)
        \o (IF QLe(Tenths(6), low_mot) THEN <<Block("boundary", "motivation >= 60%")>>
            ELSE <<>>)
        \o (IF style = "impulsive" THEN <<Block("boundary", "impulsivity")>> ELSE <<>>)
        \o (IF QLt(DictGet(diagnostic_depth, "high"), Tenths(5))
            THEN <<Block("boundary", "diagnostic depth")>> ELSE <<>>)

\* a plausible slip: the advice for the cognitive style is left out
generate_extra_recommendations_no_style(K) ==
    LET diagnostic_depth == KwDict(K, "diagnostic_depth")
        motivational     == KwDict(K, "motivational_potential")
        emotional        == KwDict(K, "emotional_profile")
        Line(em) ==
            IF QLt(Tenths(3), DictGet(emotional, em)) THEN <<Block("extra", em)>> ELSE <<>>
    IN  (IF QLt(DictGet(diagnostic_depth, "high"), Tenths(5))
         THEN <<Block("extra", "more sessions")>> ELSE <<>>)
        \o (IF QLt(Tenths(6), DictGet(motivational, "low"))
            THEN <<Block("extra", "reduced motivation")>>
            ELSE IF QLt(Tenths(7), DictGet(motivational, "high"))
            THEN <<Block("extra", "high motivation")>>
            ELSE <<>>)
        \o (IF emotional # <<>>
            THEN Line("anger") \o Line("sorrow") \o Line("boredom")
            ELSE <<>>)

\* FuzzyAnalyzer._generate_extra_recommendations(**kwargs)
generate_extra_recommendations(K) ==
    LET diagnostic_depth == KwDict(K, "diagnostic_depth")
        motivational     == KwDict(K, "motivational_potential")
        emotional        == KwDict(K, "emotional_profile")
        style            == KwStyle(K)
        Line(em) ==
            IF QLt(Tenths(3), DictGet(emotional, em)) THEN <<Block("extra", em)>> ELSE <<>>
    IN  (IF QLt(DictGet(diagnostic_depth, "high"), Tenths(5))
         THEN <<Block("extra", "more sessions")>> ELSE <<>>)
        \o (IF QLt(Tenths(6), DictGet(motivational, "low"))
            THEN <<Block("extra", "reduced motivation")>>
            ELSE IF QLt(Tenths(7), DictGet(motivational, "high"))
            THEN <<Block("extra", "high motivation")>>
            ELSE <<>>)
        \o (IF style \in {"impulsive", "systematic", "adaptive"}
            THEN <<Block("extra", style)>> ELSE <<>>)
        \o (IF emotional # <<>>
            THEN Line("anger") \o Line("sorrow") \o Line("boredom")
            ELSE <<>>)

\* lines 758-767: one block per matched diagnosis
DiagnosisBlocks(m) == [i \in 1..Len(m) |-> Block("diagnosis", m[i].diag.code)]

\* lines 770-775: the keywords _generate_boundary_analysis is called with
BoundaryKwargs(K) ==
    [diagnostic_depth |-> DictVar(KwDict(K, "diagnostic_depth")),
     motivational     |-> DictVar(KwDict(K, "motivational_potential")),
     emotional        |-> DictVar(KwDict(K, "emotional_profile")),
     cognitive_style  |-> LabelVar(KwStyle(K))]

NoConcerns == <<Block("none", "no diagnosis detected")>>

\* a plausible slip: the boundary blocks are put ahead of the diagnoses
AssembleSections_boundary_first(diagnoses, boundary, extra) ==
    boundary \o diagnoses \o extra

\* lines 768-789: sections, and the text returned for them
AssembleSections(diagnoses, boundary, extra) ==
    LET sections == diagnoses \o boundary \o extra
    IN  IF sections = <<>> THEN NoConcerns ELSE sections

\* FuzzyAnalyzer.generate_recommendations_with_diagnoses(**kwargs), for
\* kwargs on which _match_diagnoses does not raise
generate_recommendations_with_diagnoses(K, diags) ==
    LET m == match_diagnoses(K, diags)
    IN  [matched         |-> m,
         detected_codes  |-> CodesOf(m),
         recommendations |->
             AssembleSections(DiagnosisBlocks(m),
                              generate_boundary_analysis(BoundaryKwargs(K)),
                              generate_extra_recommendations(K))]

---------------------------------------------------------------------------
(* The profiles and catalogs handed to the matcher *)

Degrees == {Div(k, Unit) : k \in 0..Unit}
Terms   == {"lo", "hi"}
Styles  == {"impulsive", "systematic"}

\* the profiles handed to the matcher: one fuzzified variable and the style
Profiles ==
    {[v |-> DictVar(d), cognitive_style |-> LabelVar(s)] :
        d \in [Terms -> Degrees], s \in Styles}

\* condition keys: three evaluable ones, one whose variable the profile
\* lacks, one without a dot and one with two dots
WellFormedKeys == {<<"v", "lo">>, <<"v", "hi">>, <<"cognitive_style", "impulsive">>}
AbsentKeys     == {<<"w", "lo">>}
MalformedKeys  == {<<"vlo">>, <<"v", "lo", "x">>}
Keys           == WellFormedKeys \cup AbsentKeys \cup MalformedKeys

Conditions(keys) == keys \X Degrees

\* fuzzy_conditions: a dict, so its keys are distinct
CondLists(keys, n) ==
    UNION {{c \in [1..k -> Conditions(keys)] :
               \A i, j \in 1..k : i # j => c[i][1] # c[j][1]} : k \in 0..n}

Priorities == {2, 5}

Diag(code, priority, conds) ==
    [code |-> code, priority |-> priority, fuzzy_conditions |-> conds]

\* the catalog as objects.all() yields it (Meta.ordering = priority, name):
\* one entry with up to MaxCond conditions of any kind, or three entries
\* with one evaluable condition each
Catalogs ==
    {<<Diag("d1", p, c)>> : p \in Priorities, c \in CondLists(Keys, MaxCond)}
    \cup
    {<<Diag("d1", p[1], <<c[1]>>), Diag("d2", p[2], <<c[2]>>), Diag("d3", p[3], <<c[3]>>)>> :
        p \in {q \in [1..3 -> Priorities] : q[1] <= q[2] /\ q[2] <= q[3]},
        c \in [1..3 -> Conditions({<<"v", "lo">>, <<"v", "hi">>})]}

InitMatch ==
    /\ profile_data \in Profiles
    /\ catalog \in Catalogs
    /\ matched = <<>> /\ prev_matched = <<>> /\ detected_codes = <<>> /\ recommendations = <<>>
    /\ IdleMF /\ IdleRecords /\ IdleProfile /\ IdlePanel
    /\ pc = "first"

\* analyzer.generate_recommendations_with_diagnoses(**profile_data)
GenerateRecommendationsWithDiagnoses ==
    /\ pc \in {"first", "second"}
    /\ prev_matched' = matched
    /\ IF match_raises(profile_data, catalog)
       THEN /\ matched' = <<>> /\ detected_codes' = <<>> /\ recommendations' = <<>>
            /\ pc' = "raised"
       ELSE LET out == generate_recommendations_with_diagnoses(profile_data, catalog)
            IN  /\ matched' = out.matched
                /\ detected_codes' = out.detected_codes
                /\ recommendations' = out.recommendations
                /\ pc' = IF pc = "first" THEN "done1" ELSE "done2"
    /\ UNCHANGED <<profile_data, catalog, mfVars, recordVars, profileVars, panelVars>>

\* the next profile of the child differs by one raised variable/term value
RaiseProfileValue ==
    /\ pc = "done1"
    /\ \E t \in Terms, val \in Degrees :
          /\ QLt(profile_data.v.dict[t], val)
          /\ profile_data' = [profile_data EXCEPT !.v.dict[t] = val]
    /\ pc' = "second"
    /\ UNCHANGED <<catalog, matched, prev_matched, detected_codes, recommendations,
                   mfVars, recordVars, profileVars, panelVars>>

NextMatch == GenerateRecommendationsWithDiagnoses \/ RaiseProfileValue
SpecMatch == InitMatch /\ [][NextMatch]_vars

---------------------------------------------------------------------------
(* Claims about the matcher *)

Matched == pc \in {"done1", "done2"}

CondsOf(diag) == {diag.fuzzy_conditions[i] : i \in 1..Len(diag.fuzzy_conditions)}
HasForm(c)    == Len(c[1]) = 2                  \* "variable.term"
VarPresent(c) == c[1][1] \in DOMAIN profile_data

\* the profile value a "variable.term" condition refers to; a variable or
\* term the profile does not hold counts as 0
ProfileValue(c) ==
    LET var == c[1][1]  term == c[1][2]
    IN  IF var = "v" /\ term \in Terms THEN profile_data.v.dict[term]
        ELSE IF var = "cognitive_style" /\ profile_data.cognitive_style.label = term
             THEN One
             ELSE Zero

MinOf(S)  == CHOOSE m \in S : \A n \in S : QLe(m, n)
InResult(diag) == \E i \in 1..Len(matched) : matched[i].diag = diag
ScoreOf(diag)  == (CHOOSE m \in {matched[i] : i \in 1..Len(matched)} : m.diag = diag).score
Entries == {catalog[i] : i \in 1..Len(catalog)}

\* C3: AND semantics.  An entry with a non-empty condition mapping whose
\* keys all have the form variable.term is in the result iff each condition
\* has profile value >= its threshold and the minimum of the values is > 0;
\* its degree is that minimum; and any entry with one condition below its
\* threshold is not in the result.
C3_AndSemantics ==
    Matched =>
        \A diag \in Entries :
            LET cs   == CondsOf(diag)
                vals == {ProfileValue(c) : c \in cs}
            IN  /\ (cs # {} /\ \A c \in cs : HasForm(c)) =>
                     /\ InResult(diag) <=>
                            /\ \A c \in cs : QLe(c[2], ProfileValue(c))
                            /\ QLt(Zero, MinOf(vals))
                     /\ InResult(diag) => ScoreOf(diag) = MinOf(vals)
                /\ (\E c \in cs : HasForm(c) /\ QLt(ProfileValue(c), c[2])) => ~InResult(diag)

\* an entry with two satisfied conditions of different values is matched
\* with the smaller one
C3_Reached ==
    /\ Matched
    /\ \E diag \in Entries :
          /\ InResult(diag)
          /\ Len(diag.fuzzy_conditions) = 2
          /\ \A c \in CondsOf(diag) : HasForm(c) /\ VarPresent(c)
          /\ QLt(ProfileValue(diag.fuzzy_conditions[1]),
                 ProfileValue(diag.fuzzy_conditions[2]))
          /\ ScoreOf(diag) = ProfileValue(diag.fuzzy_conditions[1])

\* C4: the result is ordered by descending degree, entries of equal degree
\* by ascending priority, and detected_codes lists the codes in that order.
C4_Ordered ==
    Matched =>
        /\ \A i, j \in 1..Len(matched) :
              i < j =>
                 \/ QLt(matched[j].score, matched[i].score)
                 \/ /\ matched[i].score = matched[j].score
                    /\ matched[i].diag.priority <= matched[j].diag.priority
        /\ Len(detected_codes) = Len(matched)
        /\ \A i \in 1..Len(matched) : detected_codes[i] = matched[i].diag.code

\* two entries of equal degree and priorities 2 and 5 lead the list, ahead
\* of an entry of lower degree that comes first in the catalog
C4_Reached ==
    /\ Matched /\ Len(matched) = 3
    /\ matched[1].score = matched[2].score
    /\ matched[1].diag.priority = 2 /\ matched[2].diag.priority = 5
    /\ QLt(matched[3].score, matched[2].score)
    /\ matched[3].diag = catalog[1]
    /\ detected_codes = <<"d2", "d3", "d1">>

CodeSet(m) == {m[i].diag.code : i \in 1..Len(m)}

\* C5: after one variable/term value of the profile is raised, every entry
\* matched before is still matched.
C5_Monotonic == pc = "done2" => CodeSet(prev_matched) \subseteq CodeSet(matched)

\* a raise that keeps a matched entry and adds another one
C5_Reached ==
    /\ pc = "done2"
    /\ CodeSet(prev_matched) # {}
    /\ CodeSet(prev_matched) # CodeSet(matched)

\* the degree the loop starts from (1.0) capped by the given values
MinWithUnit(vals) == MinOf(vals \cup {One})

\* C6 as stated: conditions with a malformed key and conditions whose
\* variable the profile lacks are both skipped, so an entry is matched
\* exactly when its remaining conditions are satisfied.
C6_SkipsMalformedAndAbsent ==
    Matched =>
        \A diag \in Entries :
            LET rest == {c \in CondsOf(diag) : HasForm(c) /\ VarPresent(c)}
                vals == {ProfileValue(c) : c \in rest}
            IN  CondsOf(diag) # {} =>
                  /\ InResult(diag) <=>
                         /\ \A c \in rest : QLe(c[2], ProfileValue(c))
                         /\ QLt(Zero, MinWithUnit(vals))
                  /\ InResult(diag) => ScoreOf(diag) = MinWithUnit(vals)

\* C6 amended: only a condition whose key is not "variable.term" is
\* skipped; a condition whose variable the profile lacks is evaluated with
\* value 0 and eliminates the entry.
C6_SkipsMalformedOnly ==
    Matched =>
        \A diag \in Entries :
            LET rest == {c \in CondsOf(diag) : HasForm(c)}
                vals == {ProfileValue(c) : c \in rest}
            IN  CondsOf(diag) # {} =>
                  /\ InResult(diag) <=>
                         /\ \A c \in rest : VarPresent(c) /\ QLe(c[2], ProfileValue(c))
                         /\ QLt(Zero, MinWithUnit(vals))
                  /\ InResult(diag) => ScoreOf(diag) = MinWithUnit(vals)

\* an entry with a malformed condition ahead of a satisfied one is matched
\* with the degree of the satisfied one
C6_Reached ==
    /\ Matched
    /\ \E diag \in Entries :
          /\ Len(diag.fuzzy_conditions) = 2
          /\ ~HasForm(diag.fuzzy_conditions[1])
          /\ HasForm(diag.fuzzy_conditions[2]) /\ VarPresent(diag.fuzzy_conditions[2])
          /\ InResult(diag)
          /\ ScoreOf(diag) = ProfileValue(diag.fuzzy_conditions[2])
          /\ QLt(ScoreOf(diag), One)

\* C28: a catalog entry is in the result only if at least one of its
\* conditions has a well-formed "variable.term" key whose profile value
\* reaches its threshold; an entry whose keys are all malformed is never
\* matched, and every match degree lies in (0, 1].
C28_MatchedByAWellFormedCondition ==
    Matched =>
        \A diag \in Entries :
            InResult(diag) =>
                /\ \E c \in CondsOf(diag) : HasForm(c) /\ QLe(c[2], ProfileValue(c))
                /\ QLt(Zero, ScoreOf(diag)) /\ QLe(ScoreOf(diag), One)

\* an entry whose only condition has a key without a dot is in the result
\* with degree 1
C28_Reached ==
    /\ Matched
    /\ \E diag \in Entries :
          /\ CondsOf(diag) # {}
          /\ \A c \in CondsOf(diag) : ~HasForm(c)
          /\ InResult(diag)
          /\ ScoreOf(diag) = One

---------------------------------------------------------------------------
(* 3. GameResultRecord *)

MaxRec == 3         \* records in a list
MaxProfiles == 2    \* DiagnosticProfile rows of one child
MaxEmo == 1         \* emotion mass of one record

\* performance_metrics: a dict; `has` holds the keys that are present
NoPM ==
    [has |-> {}, attempts |-> 0, total |-> 0, hints_used |-> 0,
     pairs_found |-> 0, levels_completed |-> 0, moves |-> 0,
     level_reached |-> 0, completed |-> FALSE, commission_errors |-> 0]

PM(pm, key, val) == [pm EXCEPT !.has = @ \cup {key}, ![key] = val]

\* pm.get(key, default)
PmGet(pm, key, default) == IF key \in pm.has THEN pm[key] ELSE default

\* the six emotion counters, by the model field each label stands for
\* (гнев, скука, радость, счастье, грусть, любовь)
EMOTIONS == <<"anger", "boredom", "joy", "happiness", "sorrow", "love">>
EmotionSet == {EMOTIONS[i] : i \in 1..Len(EMOTIONS)}

\* a GameResult row with the defaults of the model's fields
DefaultRecord ==
    [game_type |-> "Puzzle", mistakes |-> 0, reaction_times |-> <<>>,
     performance_metrics |-> NoPM,
     anger |-> 0, boredom |-> 0, joy |-> 0, happiness |-> 0, sorrow |-> 0, love |-> 0,
     session_completed |-> FALSE, drawing_data |-> "none",
     dialog_answers |-> 0, choices |-> 0,
     strategy_type |-> "", mistake_types |-> [inhibition |-> 0, attention |-> 0],
     date |-> <<1, 1, 0>>]

\* lists of up to n records drawn from U
Lists(U, n) == UNION {[1..k -> U] : k \in 0..n}

RECURSIVE SumSeq(_)
SumSeq(s) == IF s = <<>> THEN 0 ELSE Head(s) + SumSeq(Tail(s))

\* sum(r.<field> for r in game_results)
RECURSIVE SumField(_, _)
SumField(rs, field) ==
    IF rs = <<>> THEN 0 ELSE Head(rs)[field] + SumField(Tail(rs), field)

---------------------------------------------------------------------------
(* 4.6 EmotionalProfileAnalyzer: FuzzyAnalyzer.analyze_emotions *)

\* a plausible slip: the guard for an all-zero total is missing
analyze_emotions_unguarded(rs) ==
    LET emotion_sums == [e \in EmotionSet |-> SumField(rs, e)]
        total == SumSeq([i \in 1..Len(EMOTIONS) |-> emotion_sums[EMOTIONS[i]]])
    IN  [e \in EmotionSet |-> Div(emotion_sums[e], total)]

\* FuzzyAnalyzer.analyze_emotions
analyze_emotions(rs) ==
    LET emotion_sums == [e \in EmotionSet |-> SumField(rs, e)]
        total == SumSeq([i \in 1..Len(EMOTIONS) |-> emotion_sums[EMOTIONS[i]]])
    IN  IF total = 0
        THEN [e \in EmotionSet |-> Zero]
        ELSE [e \in EmotionSet |-> Div(emotion_sums[e], total)]

\* records that differ in their emotion counters only
EmotionRecords ==
    {[[[[[[DefaultRecord EXCEPT !.anger = c["anger"]]
                         EXCEPT !.boredom = c["boredom"]]
                         EXCEPT !.joy = c["joy"]]
                         EXCEPT !.happiness = c["happiness"]]
                         EXCEPT !.sorrow = c["sorrow"]]
                         EXCEPT !.love = c["love"]] :
        c \in {f \in [EmotionSet -> 0..MaxEmo] :
                  f["anger"] + f["boredom"] + f["joy"] + f["happiness"]
                    + f["sorrow"] + f["love"] <= MaxEmo}}

InitEmotions ==
    /\ game_results \in Lists(EmotionRecords, MaxRec)
    /\ permuted = <<>> /\ emotions = <<>> /\ metrics = <<>> /\ metrics_perm = <<>>
    /\ IdleMF /\ IdleMatch /\ IdleProfile /\ IdlePanel
    /\ pc = "emotions"

\* analyzer.analyze_emotions(game_results)
AnalyzeEmotions ==
    /\ pc = "emotions"
    /\ emotions' = analyze_emotions(game_results)
    /\ pc' = "analyzed"
    /\ UNCHANGED <<game_results, permuted, metrics, metrics_perm,
                   mfVars, matchVars, profileVars, panelVars>>

NextEmotions == AnalyzeEmotions
SpecEmotions == InitEmotions /\ [][NextEmotions]_vars

\* the total emotion mass of the records, counter by counter
EmotionMass ==
    LET RECURSIVE Mass(_)
        Mass(rs) ==
            IF rs = <<>> THEN 0
            ELSE Head(rs).anger + Head(rs).boredom + Head(rs).joy
                 + Head(rs).happiness + Head(rs).sorrow + Head(rs).love
                 + Mass(Tail(rs))
    IN  Mass(game_results)

RECURSIVE QSumSeq(_)
QSumSeq(s) == IF s = <<>> THEN Zero ELSE QAdd(Head(s), QSumSeq(Tail(s)))

ShareSum == QSumSeq([i \in 1..Len(EMOTIONS) |-> emotions[EMOTIONS[i]]])

\* C7: the six shares lie in [0,1] and sum to 1 when the total of all
\* counters is > 0; they are all 0, and nothing is divided, when it is 0
\* (the empty list included).
C7_SharesNormalised ==
    pc = "analyzed" =>
        /\ DOMAIN emotions = EmotionSet
        /\ \A e \in EmotionSet : In01(emotions[e])
        /\ EmotionMass > 0 => ShareSum = One
        /\ EmotionMass = 0 => \A e \in EmotionSet : emotions[e] = Zero

\* a list of three records with two different emotions: shares 2/3 and 1/3
C7_Reached ==
    /\ pc = "analyzed" /\ Len(game_results) = 3
    /\ emotions["joy"] = Div(2, 3) /\ emotions["sorrow"] = Div(1, 3)

---------------------------------------------------------------------------
(* 4.2 MetricExtractor: diagnostic_panel.extract_game_metrics              *)
(*                                                                         *)
(* Reaction times are counted in units of 100 ms, so the constants 200     *)
(* and 1500 of the impulsivity formula read 2 and 15.  The standard        *)
(* deviation is irrational in general: the model carries the square of     *)
(* cognitive_control, min(1, 4 * var / avg^2), which determines it.        *)

MaxMistakes == 2    \* mistakes of one record

\* `a or b` on numbers
OrElse(a, b) == IF a # 0 THEN a ELSE b

Max2(a, b) == IF a >= b THEN a ELSE b

TotalTypes == {"EmotionFace", "Sort", "Pattern", "EmotionMatch"}

\* lines 297-302: what one record adds to total_actions
ActionsOf(r) ==
    LET pm == r.performance_metrics
    IN  IF r.game_type = "Memory" THEN OrElse(PmGet(pm, "attempts", 0) * 2, 1)
        ELSE IF r.game_type \in TotalTypes THEN OrElse(PmGet(pm, "total", 8), 8)
        ELSE Max2(Max2(Len(r.reaction_times), PmGet(pm, "total", 1)), 1)

\* lines 292-294: all_rt
RECURSIVE AllRt(_)
AllRt(rs) == IF rs = <<>> THEN <<>> ELSE Head(rs).reaction_times \o AllRt(Tail(rs))

\* a plausible slip: total_actions is assigned, not accumulated
TotalActions_last(rs) == IF rs = <<>> THEN 0 ELSE ActionsOf(rs[Len(rs)])

\* total_actions after the loop
RECURSIVE TotalActions(_)
TotalActions(rs) == IF rs = <<>> THEN 0 ELSE ActionsOf(Head(rs)) + TotalActions(Tail(rs))

\* hint_count after the loop
RECURSIVE HintCount(_)
HintCount(rs) ==
    IF rs = <<>> THEN 0
    ELSE PmGet(Head(rs).performance_metrics, "hints_used", 0) + HintCount(Tail(rs))

RECURSIVE SumSq(_)
SumSq(s) == IF s = <<>> THEN 0 ELSE Head(s) * Head(s) + SumSq(Tail(s))

\* np.mean
Mean(s) == Div(SumSeq(s), Len(s))

\* np.std squared: the mean of the squared deviations from the mean
Variance(s) == QSub(Div(SumSq(s), Len(s)), QMul(Mean(s), Mean(s)))

\* a plausible slip: the divisions are not guarded by fallback values
extract_game_metrics_unguarded(rs) ==
    LET all_rt         == AllRt(rs)
        total_mistakes == SumField(rs, "mistakes")
        total_actions  == TotalActions(rs)
        avg_rt         == Mean(all_rt)
        error_rate     == Div(total_mistakes, total_actions)
    IN  [impulsivity          |->
             QMax(Zero, QMin(One, QSub(One, QDiv(QSub(avg_rt, Num(2)), Num(15))))),
         cognitive_control_sq |->
             QMin(One, QMul(QDiv(Variance(all_rt), QMul(avg_rt, avg_rt)), Num(4))),
         cognitive_activity   |-> QMin(One, Div(HintCount(rs), Len(rs) * 3)),
         strategy             |-> QMin(One, QMul(error_rate, Tenths(25))),
         anxiety              |-> QAdd(Tenths(3), QMul(Tenths(4), QSub(One, error_rate)))]

\* diagnostic_panel.extract_game_metrics
extract_game_metrics(rs) ==
    LET all_rt         == AllRt(rs)
        total_mistakes == SumField(rs, "mistakes")
        total_actions  == TotalActions(rs)
        hint_count     == HintCount(rs)
        session_count  == Len(rs)
        avg_rt         == Mean(all_rt)
        impulsivity    ==
            IF all_rt # <<>>
            THEN (IF QLt(Zero, avg_rt)
                  THEN QMax(Zero, QMin(One,
                           QSub(One, QDiv(QSub(avg_rt, Num(2)), Num(15)))))
                  ELSE Tenths(5))
            ELSE Tenths(5)
        cv_sq ==
            IF QLt(Zero, avg_rt)
            THEN QDiv(Variance(all_rt), QMul(avg_rt, avg_rt))
            ELSE Zero
        control_sq ==
            IF all_rt # <<>> THEN QMin(One, QMul(cv_sq, Num(4)))
            ELSE QMul(Tenths(5), Tenths(5))
        hints_norm == QMin(One, Div(hint_count, Max2(session_count * 3, 1)))
        error_rate ==
            IF total_actions > 0 THEN Div(total_mistakes, total_actions) ELSE Tenths(2)
    IN  [impulsivity          |-> impulsivity,
         cognitive_control_sq |-> control_sq,
         cognitive_activity   |-> hints_norm,
         strategy             |-> QMin(One, QMul(error_rate, Tenths(25))),
         anxiety              |->
             IF total_actions > 0
             THEN QAdd(Tenths(3), QMul(Tenths(4), QSub(One, error_rate)))
             ELSE Tenths(4)]

\* records that differ from the default row in one respect: the activity
\* and its action metrics, the mistakes, the reaction times, or the hints
MetricRecords ==
    {DefaultRecord}
    \cup {[DefaultRecord EXCEPT !.game_type = "Memory"],
          [DefaultRecord EXCEPT !.game_type = "Memory",
                                !.performance_metrics = PM(NoPM, "attempts", 2)],
          [DefaultRecord EXCEPT !.game_type = "Sort",
                                !.performance_metrics = PM(NoPM, "total", 0)],
          [DefaultRecord EXCEPT !.game_type = "Sort",
                                !.performance_metrics = PM(NoPM, "total", 3)],
          [DefaultRecord EXCEPT !.performance_metrics = PM(NoPM, "total", 2)]}
    \cup {[DefaultRecord EXCEPT !.mistakes = m] : m \in 1..MaxMistakes}
    \cup {[DefaultRecord EXCEPT !.reaction_times = t] : t \in {<<0>>, <<2>>, <<2, 17>>}}
    \cup {[DefaultRecord EXCEPT !.performance_metrics = PM(NoPM, "hints_used", h)] :
             h \in {1, 4}}

InitMetrics ==
    /\ game_results \in Lists(MetricRecords, MaxRec)
    /\ permuted = <<>> /\ emotions = <<>> /\ metrics = <<>> /\ metrics_perm = <<>>
    /\ IdleMF /\ IdleMatch /\ IdleProfile /\ IdlePanel
    /\ pc = "metrics"

\* extract_game_metrics(game_results)
ExtractGameMetrics ==
    /\ pc = "metrics"
    /\ metrics' = extract_game_metrics(game_results)
    /\ pc' = "extracted"
    /\ UNCHANGED <<game_results, permuted, emotions, metrics_perm,
                   mfVars, matchVars, profileVars, panelVars>>

\* extract_game_metrics on the same records handed over in another order
ExtractPermuted ==
    /\ pc = "extracted"
    /\ \E p \in Permutations(1..Len(game_results)) :
          /\ permuted' = [i \in 1..Len(game_results) |-> game_results[p[i]]]
          /\ metrics_perm' = extract_game_metrics(permuted')
    /\ pc' = "both"
    /\ UNCHANGED <<game_results, emotions, metrics, mfVars, matchVars, profileVars, panelVars>>

NextMetrics == ExtractGameMetrics \/ ExtractPermuted
SpecMetrics == InitMetrics /\ [][NextMetrics]_vars

\* C8: the five features do not depend on the order of the records.
C8_OrderInvariant == pc = "both" => metrics_perm = metrics

\* a reordered list whose records differ in actions, mistakes and samples
C8_Reached ==
    /\ pc = "both" /\ Len(game_results) = 3
    /\ permuted # game_results
    /\ permuted[1] = game_results[3]
    /\ game_results[1].game_type = "Memory"
    /\ game_results[2].mistakes > 0
    /\ game_results[3].reaction_times = <<2, 17>>

\* C15: extract_game_metrics falls back to fixed values instead of
\* dividing by zero: without reaction-time samples impulsivity = 0.5 and
\* cognitive_control = 0.5; with samples whose mean is 0 impulsivity = 0.5
\* and cognitive_control = 0; without actions strategy = 0.5 and
\* anxiety = 0.4; without records cognitive_activity = 0.
C15_NeutralFallbacks ==
    pc \in {"extracted", "both"} =>
        LET all_rt == AllRt(game_results)
        IN  /\ \A f \in DOMAIN metrics : IsNum(metrics[f])
            /\ all_rt = <<>> =>
                  /\ metrics.impulsivity = Div(1, 2)
                  /\ metrics.cognitive_control_sq = Div(1, 4)
            /\ (all_rt # <<>> /\ SumSeq(all_rt) = 0) =>
                  /\ metrics.impulsivity = Div(1, 2)
                  /\ metrics.cognitive_control_sq = Zero
            /\ TotalActions(game_results) = 0 =>
                  /\ metrics.strategy = Div(1, 2)
                  /\ metrics.anxiety = Div(2, 5)
            /\ game_results = <<>> => metrics.cognitive_activity = Zero

\* two records whose reaction-time samples are all 0
C15_Reached ==
    /\ pc = "extracted" /\ Len(game_results) = 2
    /\ AllRt(game_results) = <<0, 0>>
    /\ metrics.impulsivity = Div(1, 2) /\ metrics.cognitive_control_sq = Zero

\* clamp01(1 - (mean - 200) / 1500) over the pooled samples (in 100 ms)
BaseImpulsivity(rts) ==
    QMax(Zero, QMin(One, QSub(One, QDiv(QSub(Mean(rts), Num(2)), Num(15)))))

\* the coefficient of variation of the pooled samples exceeds 0.3
Unstable(rts) ==
    QLt(QMul(Hundredths(9), QMul(Mean(rts), Mean(rts))), Variance(rts))

\* C23: impulsivity is clamp01(1 - (mean(reaction_times) - 200) / 1500),
\* raised toward 1 and capped at 1 when the coefficient of variation of
\* the pooled reaction times exceeds 0.3: at a given mean, samples with a
\* coefficient of variation > 0.3 get no lower a value than samples with
\* one <= 0.3, and a strictly higher value when the base is below 1.
C23_InstabilityBonus ==
    LET all_rt == AllRt(game_results)
    IN  (pc \in {"extracted", "both"} /\ all_rt # <<>> /\ QLt(Zero, Mean(all_rt))) =>
            /\ ~Unstable(all_rt) => metrics.impulsivity = BaseImpulsivity(all_rt)
            /\ Unstable(all_rt) =>
                  /\ QLe(BaseImpulsivity(all_rt), metrics.impulsivity)
                  /\ QLe(metrics.impulsivity, One)
                  /\ QLt(BaseImpulsivity(all_rt), One)
                        => QLt(BaseImpulsivity(all_rt), metrics.impulsivity)

\* the features of samples 200 ms and 1700 ms, whose coefficient of
\* variation is 0.79 and whose base value is 0.5
C23_Reached ==
    /\ pc = "extracted" /\ AllRt(game_results) = <<2, 17>>
    /\ Unstable(<<2, 17>>) /\ BaseImpulsivity(<<2, 17>>) = Tenths(5)
    /\ metrics.impulsivity = Tenths(5)

\* C9: with non-negative errors, hints and reaction times each of the five
\* features lies in [0,1], anxiety included when the summed errors exceed
\* the summed action count.
C9_FeaturesIn01 ==
    pc \in {"extracted", "both"} =>
        /\ In01(metrics.impulsivity)
        /\ In01(metrics.cognitive_control_sq)
        /\ In01(metrics.cognitive_activity)
        /\ In01(metrics.strategy)
        /\ In01(metrics.anxiety)

---------------------------------------------------------------------------
(* 4.3 AssessmentQualityScorer and FuzzyAnalyzer.create_diagnostic_profile *)
(*                                                                         *)
(* The three terms of every axis are called low, medium and high here      *)
(* (низкая/средняя/высокая, низкий/умеренный/высокий,                      *)
(* ограниченный/умеренный/широкий in the source).                          *)

\* LINGUISTIC_VARIABLES[...]['terms'], breakpoints in tenths
DepthTerms == [low |-> <<0, 0, 3, 4>>, medium |-> <<3, 5, 7, 8>>, high |-> <<7, 8, 10, 10>>]
AxisTerms  == [low |-> <<0, 0, 2, 3>>, medium |-> <<2, 4, 6, 7>>, high |-> <<6, 8, 10, 10>>]

\* FuzzyVariable.fuzzify
fuzzify(terms, value) == [t \in DOMAIN terms |-> membership(terms[t], value)]

\* a distribution literal {low: l/10, medium: m/10, high: h/10}
Dist(l, m, h) == [low |-> Tenths(l), medium |-> Tenths(m), high |-> Tenths(h)]

\* sum(f(r) for r in rs) and sum(1 for r in rs if f(r))
QSumOver(rs, F(_)) == QSumSeq([i \in 1..Len(rs) |-> F(rs[i])])
Count(rs, F(_)) == Cardinality({i \in 1..Len(rs) : F(rs[i])})

GameTypes(rs) == {rs[i].game_type : i \in 1..Len(rs)}

DataTypes == {"EmotionFace", "Attention", "GoNoGo", "Sort", "Pattern", "EmotionMatch"}

\* FuzzyAnalyzer._game_data_score
game_data_score(r) ==
    LET pm == r.performance_metrics
    IN  IF r.game_type = "Painting"
        THEN (IF r.drawing_data = "image" THEN One ELSE Tenths(3))
        ELSE IF r.game_type = "Dialog" THEN QMin(Div(r.dialog_answers, 5), One)
        ELSE IF r.game_type = "Choice" THEN QMin(Div(r.choices, 5), One)
        ELSE IF r.game_type = "Memory"
        THEN QMin(Div(PmGet(pm, "pairs_found", 0)
                        + PmGet(pm, "levels_completed", 0) * 2, 10), One)
        ELSE IF r.game_type = "Puzzle"
        THEN (IF PmGet(pm, "moves", 0) > 0 THEN Tenths(5) ELSE Tenths(2))
        ELSE IF r.game_type = "Sequence"
        THEN (IF PmGet(pm, "level_reached", 0) > 0 THEN Tenths(5) ELSE Tenths(2))
        ELSE IF r.game_type \in DataTypes
        THEN (IF pm.has # {} THEN Tenths(7) ELSE Tenths(3))
        ELSE Tenths(3)

\* FuzzyAnalyzer.calculate_diagnostic_depth
calculate_diagnostic_depth(rs) ==
    IF rs = <<>> THEN Dist(5, 5, 0)
    ELSE LET diversity      == QMin(Div(Cardinality(GameTypes(rs)), 12), One)
             has_detailed   == QDiv(QSumOver(rs, game_data_score), Num(Len(rs)))
             sessions_score == QMin(Div(Len(rs), 8), One)
             depth_score    ==
                 QAdd(QAdd(QMul(diversity, Hundredths(35)),
                           QMul(has_detailed, Tenths(4))),
                      QMul(sessions_score, Hundredths(25)))
         IN  fuzzify(DepthTerms, depth_score)

\* FuzzyAnalyzer.calculate_motivation
calculate_motivation(rs) ==
    IF rs = <<>> THEN Dist(5, 5, 0)
    ELSE LET IsCompleted(r) == r.session_completed
             IsMemory(r)    == r.game_type = "Memory"
             IsPuzzle(r)    == r.game_type = "Puzzle"
             IsSequence(r)  == r.game_type = "Sequence"
             PuzzleDone(r)  == IsPuzzle(r) /\ PmGet(r.performance_metrics, "completed", FALSE)
             MemoryPart(r)  ==
                 IF IsMemory(r)
                 THEN LET pm    == r.performance_metrics
                          lvl   == Div(PmGet(pm, "levels_completed", 0), 4)
                          pairs == QMin(Div(PmGet(pm, "pairs_found", 0), 20), One)
                      IN  QAdd(QMul(lvl, Tenths(6)), QMul(pairs, Tenths(4)))
                 ELSE Zero
             SeqPart(r) ==
                 IF IsSequence(r)
                 THEN LET lvl == Div(PmGet(r.performance_metrics, "level_reached", 1), 5)
                      IN  QMul(lvl, QMax(Zero, QSub(One, QMul(Num(r.mistakes), Tenths(1)))))
                 ELSE Zero
             JoyPart(r) == Num(r.joy + r.happiness)
             completion_rate == Div(Count(rs, IsCompleted), Len(rs))
             memory_score ==
                 QMin(QDiv(QSumOver(rs, MemoryPart), Num(Max2(Count(rs, IsMemory), 1))), One)
             puzzle_score == Div(Count(rs, PuzzleDone), Max2(Count(rs, IsPuzzle), 1))
             seq_score ==
                 QMin(QDiv(QSumOver(rs, SeqPart), Num(Max2(Count(rs, IsSequence), 1))), One)
             emotion_score == QMin(QDiv(QSumOver(rs, JoyPart), Num(Len(rs) * 10)), One)
             motivation_score ==
                 QAdd(QAdd(QAdd(QAdd(QMul(completion_rate, Tenths(2)),
                                     QMul(memory_score, Hundredths(25))),
                                QMul(puzzle_score, Tenths(2))),
                           QMul(seq_score, Tenths(2))),
                      QMul(emotion_score, Hundredths(15)))
         IN  fuzzify(AxisTerms, motivation_score)

ObjTypes ==
    {"Memory", "Puzzle", "Sequence", "EmotionFace", "Attention", "GoNoGo",
     "Sort", "Pattern", "EmotionMatch"}
SubjTypes == {"Painting", "Dialog", "Choice"}

\* a plausible slip: the score starts at 0 instead of 0.6
objectivity_score_from_zero(rs) ==
    LET IsObj(r)   == r.game_type \in ObjTypes
        IsSubj(r)  == r.game_type \in SubjTypes
        obj_ratio  == Div(Count(rs, IsObj), Len(rs))
        base       == QMul(obj_ratio, Tenths(3))
        base_score == IF Count(rs, IsSubj) > 0 THEN QAdd(base, Tenths(1)) ELSE base
    IN  QMin(base_score, One)

\* lines 498-509: base_score of a non-empty record list
objectivity_score(rs) ==
    LET IsObj(r)   == r.game_type \in ObjTypes
        IsSubj(r)  == r.game_type \in SubjTypes
        obj_ratio  == Div(Count(rs, IsObj), Len(rs))
        base       == QAdd(Tenths(6), QMul(obj_ratio, Tenths(3)))
        base_score == IF Count(rs, IsSubj) > 0 THEN QAdd(base, Tenths(1)) ELSE base
    IN  QMin(base_score, One)

\* FuzzyAnalyzer.calculate_objectivity
calculate_objectivity(rs) ==
    IF rs = <<>> THEN Dist(1, 3, 6)
    ELSE fuzzify(AxisTerms, objectivity_score(rs))

\* FuzzyAnalyzer.calculate_ecological_validity
calculate_ecological_validity(rs) ==
    IF rs = <<>> THEN Dist(2, 5, 3)
    ELSE LET IsChoice(r) == r.game_type = "Choice" /\ r.choices > 0
             IsPaint(r)  == r.game_type = "Painting" /\ r.drawing_data # "none"
             IsDialog(r) == r.game_type = "Dialog" /\ r.dialog_answers > 0
             eco_score   ==
                 QAdd(QAdd(QAdd(Tenths(6), QMul(Num(Count(rs, IsChoice)), Tenths(1))),
                           QMul(Num(Count(rs, IsPaint)), Tenths(1))),
                      QMul(Num(Count(rs, IsDialog)), Tenths(1)))
         IN  fuzzify(AxisTerms, QMin(eco_score, One))

\* FuzzyAnalyzer.calculate_dynamic_assessment
calculate_dynamic_assessment(rs) ==
    IF rs = <<>> THEN Dist(3, 5, 2)
    ELSE LET MemProgress(r) ==
                 IF r.game_type = "Memory"
                 THEN Div(PmGet(r.performance_metrics, "levels_completed", 0), 4) ELSE Zero
             SeqProgress(r) ==
                 IF r.game_type = "Sequence"
                 THEN Div(PmGet(r.performance_metrics, "level_reached", 1), 5) ELSE Zero
             PuzzleDone(r) ==
                 r.game_type = "Puzzle" /\ PmGet(r.performance_metrics, "completed", FALSE)
             multiple_points == IF Len(rs) >= 3 THEN One ELSE Zero
             game_types      == Cardinality(GameTypes(rs))
             progress_score  ==
                 QMin(QDiv(QAdd(QAdd(QSumOver(rs, MemProgress), QSumOver(rs, SeqProgress)),
                                Num(Count(rs, PuzzleDone))),
                           Num(Max2(Len(rs), 1))), One)
             dynamic_score ==
                 QAdd(QAdd(QMul(multiple_points, Hundredths(35)),
                           QMul(QMin(Div(game_types, 12), One), Tenths(4))),
                      QMul(progress_score, Hundredths(25)))
         IN  fuzzify(AxisTerms, dynamic_score)

Axes ==
    {"diagnostic_depth", "motivational_potential", "objectivity",
     "ecological_validity", "dynamic_assessment"}

\* lines 662-666: the five calculate_* calls
CalculateAll(rs) ==
    [diagnostic_depth       |-> calculate_diagnostic_depth(rs),
     motivational_potential |-> calculate_motivation(rs),
     objectivity            |-> calculate_objectivity(rs),
     ecological_validity    |-> calculate_ecological_validity(rs),
     dynamic_assessment     |-> calculate_dynamic_assessment(rs)]

---------------------------------------------------------------------------
(* 4.8 / 4.9 DynamicsBuilder and CorrelationBuilder:                       *)
(* diagnostic_panel.get_dynamics_data and get_correlation_matrix           *)
(*                                                                         *)
(* A date is the triple <<month, day, tick>> of one year, compared         *)
(* lexicographically; strftime('%d.%m') keeps <<day, month>> of it.        *)
(* Reaction times are counted in units of 100 ms, so the default 500 of    *)
(* the reaction-time indicator reads 5.                                    *)

MaxPoints == 3      \* records handed to the panel builders

\* the value None a function returns
NoneValue == [py |-> "None"]

\* r1.date <= r2.date
DateLe(d1, d2) ==
    \/ d1[1] < d2[1]
    \/ d1[1] = d2[1] /\ d1[2] < d2[2]
    \/ d1[1] = d2[1] /\ d1[2] = d2[2] /\ d1[3] <= d2[3]

\* r.date.strftime('%d.%m')
strftime(d) == <<d[2], d[1]>>

\* a plausible slip: the records are taken in the order they are given
InsertByDate_unsorted(s, r) == Append(s, r)

\* sorted(game_results, key=lambda r: r.date): stable, so r goes behind
\* every record whose date is <= its own
RECURSIVE InsertByDate(_, _)
InsertByDate(s, r) ==
    IF s = <<>> THEN <<r>>
    ELSE IF DateLe(Head(s).date, r.date) THEN <<Head(s)>> \o InsertByDate(Tail(s), r)
         ELSE <<r>> \o s

RECURSIVE SortedPrefix(_, _)
SortedPrefix(rs, n) == IF n = 0 THEN <<>> ELSE InsertByDate(SortedPrefix(rs, n - 1), rs[n])

SortedByDate(rs) == SortedPrefix(rs, Len(rs))

\* np.mean of a list of floats
QMean(s) == QDiv(QSumSeq(s), Num(Len(s)))

\* np.std squared
QVariance(s) ==
    QSub(QDiv(QSumSeq([i \in 1..Len(s) |-> QMul(s[i], s[i])]), Num(Len(s))),
         QMul(QMean(s), QMean(s)))

\* a plausible slip: the first half takes the middle element of an odd list
FirstHalf_rounded_up(s) == SubSeq(s, 1, (Len(s) + 1) \div 2)

\* s[:len(s)//2] and s[len(s)//2:]
FirstHalf(s)  == SubSeq(s, 1, Len(s) \div 2)
SecondHalf(s) == SubSeq(s, Len(s) \div 2 + 1, Len(s))

\* `s or [0]`
OrZeroList(s) == IF s = <<>> THEN <<Zero>> ELSE s

\* (1 - m/10 if m else 1), the success component and the accuracy indicator
SuccessOf(m) == IF m # 0 THEN QSub(One, Div(m, 10)) ELSE One

percentiles == <<3, 10, 25, 50, 75, 90, 97>>

\* base + p * 0.3 with base = 5
Corridor(p) == QAdd(Num(5), QMul(Num(p), Tenths(3)))

\* diagnostic_panel.get_dynamics_data
get_dynamics_data(rs) ==
    IF Len(rs) < 2 THEN NoneValue
    ELSE
    LET sorted_results == SortedByDate(rs)
        n              == Len(sorted_results)
        dates          == [i \in 1..n |-> strftime(sorted_results[i].date)]
        joys           == [i \in 1..n |-> Num(sorted_results[i].joy)]
        happinesses    == [i \in 1..n |-> Num(sorted_results[i].happiness)]
        mistakes_list  == [i \in 1..n |-> Num(sorted_results[i].mistakes)]
        success_component == [i \in 1..n |-> SuccessOf(sorted_results[i].mistakes)]
        values ==
            [i \in 1..n |-> QAdd(QAdd(joys[i], happinesses[i]), success_component[i])]
        corridor_values ==
            [k \in 1..Len(percentiles) |-> [i \in 1..n |-> Corridor(percentiles[k])]]
        first_half  == IF Len(values) > 1 THEN FirstHalf(values) ELSE values
        second_half == IF Len(values) > 1 THEN SecondHalf(values) ELSE values
        avg_first   == IF first_half # <<>> THEN QMean(first_half) ELSE Zero
        avg_second  == IF second_half # <<>> THEN QMean(second_half) ELSE Zero
        diff        == QSub(avg_second, avg_first)
        joy_first   == QMean(OrZeroList(FirstHalf(joys)))
        joy_second  == QMean(OrZeroList(SecondHalf(joys)))
        happ_first  == QMean(OrZeroList(FirstHalf(happinesses)))
        happ_second == QMean(OrZeroList(SecondHalf(happinesses)))
        mist_first  == QMean(OrZeroList(FirstHalf(mistakes_list)))
        mist_second == QMean(OrZeroList(SecondHalf(mistakes_list)))
        trend ==
            IF QLt(Tenths(5), diff) THEN "improvement"
            ELSE IF QLt(diff, Tenths(-5)) THEN "worsening" ELSE "stable"
        mean_val    == QMean(values)
        var_val     == IF Len(values) > 1 THEN QVariance(values) ELSE Zero
        corridor_50 == Corridor(50)
        \* std > 1.2, and std / mean > 0.4 for mean > 0, on the squares
        is_unstable ==
            /\ trend = "stable" /\ Len(values) >= 3
            /\ \/ QLt(Hundredths(144), var_val)
               \/ /\ QLt(Zero, mean_val)
                  /\ QLt(QMul(Hundredths(16), QMul(mean_val, mean_val)), var_val)
        is_stably_low == QLt(mean_val, QMul(corridor_50, Hundredths(85)))
        found ==
            (IF QLt(joy_second, QSub(joy_first, One)) THEN <<"joy">> ELSE <<>>)
            \o (IF QLt(happ_second, QSub(happ_first, One)) THEN <<"happiness">> ELSE <<>>)
            \o (IF QLt(QAdd(mist_first, Tenths(5)), mist_second) THEN <<"mistakes">> ELSE <<>>)
            \o (IF /\ QLe(joy_first, joy_second) /\ QLe(happ_first, happ_second)
                   /\ QLe(mist_second, mist_first)
                THEN <<"integral">> ELSE <<>>)
        problems == IF found # <<>> THEN found ELSE <<"general">>
        gains ==
            (IF QLt(QAdd(joy_first, Tenths(5)), joy_second) THEN <<"joy">> ELSE <<>>)
            \o (IF QLt(QAdd(happ_first, Tenths(5)), happ_second) THEN <<"happiness">> ELSE <<>>)
            \o (IF QLt(mist_second, QSub(mist_first, Tenths(3))) THEN <<"mistakes">> ELSE <<>>)
        improvements ==
            IF trend = "improvement" THEN (IF gains # <<>> THEN gains ELSE <<"integral">>)
            ELSE IF trend = "stable" THEN <<"steady">> ELSE <<>>
    IN  [dates       |-> dates,
         values      |-> values,
         percentiles |-> percentiles,
         corridors   |-> corridor_values,
         mean_line   |-> [i \in 1..n |-> corridor_50],
         interpretation |->
             [trend |-> trend, diff |-> diff, mean |-> mean_val, var |-> var_val,
              is_unstable   |-> is_unstable,
              is_stably_low |-> is_stably_low,
              problems      |-> IF trend = "worsening" THEN problems ELSE <<>>,
              improvements  |-> improvements]]

indicators ==
    <<"anger", "sorrow", "joy", "happiness", "love", "boredom", "accuracy", "reaction_time">>

\* (1 - (r.mistakes / 10) if r.mistakes else 1), the accuracy indicator
AccuracyOf(r) == IF r.mistakes # 0 THEN QSub(One, Div(r.mistakes, 10)) ELSE One

\* lines 647-652: the series of one indicator over the records
IndicatorSeries(rs, k) ==
    [i \in 1..Len(rs) |->
        IF k = "accuracy" THEN AccuracyOf(rs[i])
        ELSE IF k = "reaction_time"
        THEN (IF rs[i].reaction_times # <<>> THEN Mean(rs[i].reaction_times) ELSE Num(5))
        ELSE Num(rs[i][k])]

\* np.corrcoef(xs, ys)[0, 1]: NaN when a series has no variance, else the
\* sign of the covariance and the square of the coefficient
corrcoef(xs, ys) ==
    LET n   == Num(Len(xs))
        sx  == QSumSeq(xs)
        sy  == QSumSeq(ys)
        sxy == QSumSeq([i \in 1..Len(xs) |-> QMul(xs[i], ys[i])])
        sxx == QSumSeq([i \in 1..Len(xs) |-> QMul(xs[i], xs[i])])
        syy == QSumSeq([i \in 1..Len(ys) |-> QMul(ys[i], ys[i])])
        cov == QSub(QMul(n, sxy), QMul(sx, sy))
        vx  == QSub(QMul(n, sxx), QMul(sx, sx))
        vy  == QSub(QMul(n, syy), QMul(sy, sy))
    IN  IF vx = Zero \/ vy = Zero
        THEN [nan |-> TRUE, sign |-> 0, sq |-> Zero]
        ELSE [nan  |-> FALSE,
              sign |-> IF QLt(Zero, cov) THEN 1 ELSE IF QLt(cov, Zero) THEN -1 ELSE 0,
              sq   |-> QDiv(QMul(cov, cov), QMul(vx, vy))]

\* the largest k in lo..hi with ((2k - 1) / 200)^2 <= sq, by bisection
RECURSIVE NearestHundredth(_, _, _)
NearestHundredth(sq, lo, hi) ==
    IF lo = hi THEN lo
    ELSE LET mid == (lo + hi + 1) \div 2
         IN  IF QLe(Div((2 * mid - 1) * (2 * mid - 1), 40000), sq)
             THEN NearestHundredth(sq, mid, hi)
             ELSE NearestHundredth(sq, lo, mid - 1)

\* round(float(c), 2) for a coefficient of the given sign and square: the
\* number of hundredths nearest to it, the even one of two equally near
round2(sign, sq) ==
    LET k    == NearestHundredth(sq, 0, 100)
        tied == k > 0 /\ sq = Div((2 * k - 1) * (2 * k - 1), 40000)
    IN  Hundredths(sign * (IF tied /\ k % 2 = 1 THEN k - 1 ELSE k))

\* a plausible slip: the diagonal is computed like any other entry
CorrEntry_computed(vals, max_len, i, j) ==
    IF max_len > 1
    THEN LET c == corrcoef(vals[i], vals[j])
         IN  IF c.nan THEN Zero ELSE round2(c.sign, c.sq)
    ELSE Zero

\* lines 661-670: one entry of corr_matrix
CorrEntry(vals, max_len, i, j) ==
    IF i = j THEN One
    ELSE IF max_len > 1
         THEN LET c == corrcoef(vals[i], vals[j])
              IN  IF c.nan THEN Zero ELSE round2(c.sign, c.sq)
         ELSE Zero

\* diagnostic_panel.get_correlation_matrix
get_correlation_matrix(rs) ==
    LET n       == Len(indicators)
        vals    == [k \in 1..n |-> IndicatorSeries(rs, indicators[k])]
        max_len == Len(rs)
        corr_matrix == [i \in 1..n |-> [j \in 1..n |-> CorrEntry(vals, max_len, i, j)]]
    IN  [matrix |-> corr_matrix,
         labels |-> indicators,
         rows   |-> [i \in 1..n |-> [label |-> indicators[i], values |-> corr_matrix[i]]]]

\* the dates of the records: two ticks of 2 January and 1 February
Dates == {<<1, 2, 0>>, <<1, 2, 1>>, <<2, 1, 0>>}

\* records that differ in emotions, mistakes and reaction times
PanelRows ==
    <<DefaultRecord,
      [DefaultRecord EXCEPT !.joy = 20, !.reaction_times = <<1>>],
      [DefaultRecord EXCEPT !.happiness = 1, !.mistakes = 5,
                            !.reaction_times = <<2, 4>>],
      [DefaultRecord EXCEPT !.joy = 1, !.anger = 1, !.mistakes = 15]>>

\* each of them on two of the dates
PanelRecords ==
    {[PanelRows[p[1]] EXCEPT !.date = p[2]] :
        p \in {<<1, <<1, 2, 0>>>>, <<1, <<2, 1, 0>>>>,
               <<2, <<1, 2, 0>>>>, <<2, <<1, 2, 1>>>>,
               <<3, <<1, 2, 1>>>>, <<3, <<2, 1, 0>>>>,
               <<4, <<2, 1, 0>>>>, <<4, <<1, 2, 0>>>>}}

InitPanel ==
    /\ game_results \in Lists(PanelRecords, MaxPoints)
    /\ permuted = <<>> /\ emotions = <<>> /\ metrics = <<>> /\ metrics_perm = <<>>
    /\ IdleMF /\ IdleMatch /\ IdleProfile /\ IdlePanel
    /\ pc = "panel"

\* get_dynamics_data(game_results)
GetDynamicsData ==
    /\ pc = "panel" /\ dynamics = <<>>
    /\ dynamics' = get_dynamics_data(game_results)
    /\ UNCHANGED <<correlation, heatmap, params_results, strategies, cognitive_style, trends, trends_perm,
                   recordVars, mfVars, matchVars, profileVars, pc>>

\* get_correlation_matrix(game_results)
GetCorrelationMatrix ==
    /\ pc = "panel" /\ correlation = <<>>
    /\ correlation' = get_correlation_matrix(game_results)
    /\ UNCHANGED <<dynamics, heatmap, params_results, strategies, cognitive_style, trends, trends_perm,
                   recordVars, mfVars, matchVars, profileVars, pc>>

NextPanel == GetDynamicsData \/ GetCorrelationMatrix
SpecPanel == InitPanel /\ [][NextPanel]_vars

\* the records in ascending date order, ties in the order of the list
\* (the permutation is unique)
ByDate(rs) ==
    CHOOSE s \in [1..Len(rs) -> {rs[i] : i \in 1..Len(rs)}] :
        \E p \in Permutations(1..Len(rs)) :
            /\ s = [i \in 1..Len(rs) |-> rs[p[i]]]
            /\ \A i, j \in 1..Len(rs) :
                  i < j => \/ ~DateLe(rs[p[j]].date, rs[p[i]].date)
                           \/ (rs[p[i]].date = rs[p[j]].date /\ p[i] < p[j])

\* C11: get_dynamics_data returns None iff there are fewer than 2 records;
\* otherwise dates, values and the seven corridor series all have one
\* element per record, and dates and values are listed in ascending date
\* order of the records.
C11_DynamicsShape ==
    dynamics # <<>> =>
        LET n == Len(game_results)
            s == ByDate(game_results)
        IN  /\ dynamics = NoneValue <=> n < 2
            /\ n >= 2 =>
                 /\ Len(dynamics.dates) = n /\ Len(dynamics.values) = n
                 /\ Len(dynamics.corridors) = 7
                 /\ \A k \in 1..7 : Len(dynamics.corridors[k]) = n
                 /\ \A i \in 1..n :
                       /\ dynamics.dates[i] = <<s[i].date[2], s[i].date[1]>>
                       /\ dynamics.values[i] =
                            QAdd(Num(s[i].joy + s[i].happiness),
                                 IF s[i].mistakes = 0 THEN One
                                 ELSE Div(10 - s[i].mistakes, 10))

\* three records handed over in descending date order, the February one
\* first, come back in ascending order
C11_Reached ==
    /\ dynamics # <<>> /\ dynamics # NoneValue
    /\ Len(game_results) = 3
    /\ game_results[1].date = <<2, 1, 0>>
    /\ game_results[2].date = <<1, 2, 1>>
    /\ game_results[3].date = <<1, 2, 0>>
    /\ dynamics.dates = <<<<2, 1>>, <<2, 1>>, <<1, 2>>>>
    /\ dynamics.values[1] # dynamics.values[2]

\* the series of indicator i is constant over the records
Degenerate(i) ==
    LET ser == IndicatorSeries(game_results, indicators[i])
    IN  \A a, b \in 1..Len(ser) : ser[a] = ser[b]

InUnitInterval(q) == QLe(Zero, q) /\ QLe(q, One)

\* C19: every accuracy ratio the analytic views derive from a record lies
\* in [0, 1] for every non-negative error count: the accuracy indicator of
\* get_correlation_matrix and the success component of get_dynamics_data
\* (the part of a dynamics value that is not joy + happiness), also for a
\* record with more than 10 mistakes.
C19_AccuracyInUnitInterval ==
    /\ correlation # <<>> =>
          \A i \in 1..Len(game_results) :
              InUnitInterval(IndicatorSeries(game_results, "accuracy")[i])
    /\ (dynamics # <<>> /\ dynamics # NoneValue) =>
          \A i \in 1..Len(game_results) :
              LET r == ByDate(game_results)[i]
              IN  InUnitInterval(QSub(dynamics.values[i], Num(r.joy + r.happiness)))

\* both views have been computed over records one of which has 15 mistakes
C19_Reached ==
    /\ correlation # <<>> /\ dynamics # <<>> /\ dynamics # NoneValue
    /\ \E i \in 1..Len(game_results) : game_results[i].mistakes = 15

\* C25: for 2 or more records the trend follows diff = mean(second half)
\* - mean(first half) of the wellbeing values: improving for diff > 0.5,
\* worsening for diff < -0.5, stable otherwise; the instability flag is set
\* only when the trend is stable, there are at least 3 points and
\* std > 1.2 or std / mean > 0.4; the stably-low flag is set exactly when
\* the mean is below 0.85 * 20 = 17; and the interpretation holds exactly
\* one of a non-empty problems list (worsening) and a non-empty
\* improvements list (improving or stable).
C25_TrendAndFlags ==
    (dynamics # <<>> /\ dynamics # NoneValue) =>
        LET v      == dynamics.values
            n      == Len(v)
            diff   == QSub(QMean(SubSeq(v, n \div 2 + 1, n)), QMean(SubSeq(v, 1, n \div 2)))
            mean   == QMean(v)
            var    == QVariance(v)
            I      == dynamics.interpretation
            spread == \/ QLt(Hundredths(144), var)
                      \/ QLt(Zero, mean) /\ QLt(QMul(Hundredths(16), QMul(mean, mean)), var)
        IN  /\ n >= 2
            /\ I.trend = (IF QLt(Tenths(5), diff) THEN "improvement"
                          ELSE IF QLt(diff, Tenths(-5)) THEN "worsening" ELSE "stable")
            /\ I.is_unstable <=> (I.trend = "stable" /\ n >= 3 /\ spread)
            /\ I.is_stably_low <=> QLt(mean, Num(17))
            /\ I.trend = "worsening" => (I.problems # <<>> /\ I.improvements = <<>>)
            /\ I.trend # "worsening" => (I.improvements # <<>> /\ I.problems = <<>>)

\* three points without a trend whose spread sets the instability flag
C25_Reached ==
    /\ dynamics # <<>> /\ dynamics # NoneValue
    /\ Len(dynamics.values) = 3
    /\ dynamics.interpretation.trend = "stable"
    /\ dynamics.interpretation.is_unstable
    /\ dynamics.interpretation.is_stably_low

---------------------------------------------------------------------------
(* 4.5 StrategyClassifier: FuzzyAnalyzer.analyze_strategy *)

\* a plausible slip: a Sequence record with 2 mistakes still counts as careful
VotesOf_lenient(r) ==
    LET pm       == r.performance_metrics
        mt       == r.mistake_types
        moves    == PmGet(pm, "moves", 0)
        attempts == PmGet(pm, "attempts", 0)
        pairs    == PmGet(pm, "pairs_found", 0)
    IN  (IF r.strategy_type # "" THEN <<r.strategy_type>> ELSE <<>>)
        \o (IF mt.inhibition > mt.attention THEN <<"impulsive">>
            ELSE IF mt.attention > mt.inhibition THEN <<"systematic">> ELSE <<>>)
        \o (IF r.game_type = "Sequence" /\ r.mistakes > 3 THEN <<"impulsive">>
            ELSE IF r.game_type = "Sequence" /\ r.mistakes <= 2 THEN <<"systematic">>
            ELSE <<>>)
        \o (IF r.game_type = "Puzzle"
            THEN (IF moves > 50 /\ PmGet(pm, "completed", FALSE) THEN <<"systematic">>
                  ELSE IF moves < 20 /\ ~PmGet(pm, "completed", FALSE) THEN <<"impulsive">>
                  ELSE <<>>)
            ELSE <<>>)
        \o (IF /\ r.game_type = "Memory" /\ attempts > 0 /\ pairs > 0
               /\ QLt(Num(2), Div(attempts, Max2(pairs, 1)))
            THEN <<"impulsive">> ELSE <<>>)
        \o (IF r.game_type = "GoNoGo" /\ PmGet(pm, "commission_errors", 0) > 2
            THEN <<"impulsive">> ELSE <<>>)

\* lines 271-305: the votes one record appends to `strategies`, in order
VotesOf(r) ==
    LET pm       == r.performance_metrics
        mt       == r.mistake_types
        moves    == PmGet(pm, "moves", 0)
        attempts == PmGet(pm, "attempts", 0)
        pairs    == PmGet(pm, "pairs_found", 0)
    IN  (IF r.strategy_type # "" THEN <<r.strategy_type>> ELSE <<>>)
        \o (IF mt.inhibition > mt.attention THEN <<"impulsive">>
            ELSE IF mt.attention > mt.inhibition THEN <<"systematic">> ELSE <<>>)
        \o (IF r.game_type = "Sequence" /\ r.mistakes > 3 THEN <<"impulsive">>
            ELSE IF r.game_type = "Sequence" /\ r.mistakes <= 1 THEN <<"systematic">>
            ELSE <<>>)
        \o (IF r.game_type = "Puzzle"
            THEN (IF moves > 50 /\ PmGet(pm, "completed", FALSE) THEN <<"systematic">>
                  ELSE IF moves < 20 /\ ~PmGet(pm, "completed", FALSE) THEN <<"impulsive">>
                  ELSE <<>>)
            ELSE <<>>)
        \o (IF /\ r.game_type = "Memory" /\ attempts > 0 /\ pairs > 0
               /\ QLt(Num(2), Div(attempts, Max2(pairs, 1)))
            THEN <<"impulsive">> ELSE <<>>)
        \o (IF r.game_type = "GoNoGo" /\ PmGet(pm, "commission_errors", 0) > 2
            THEN <<"impulsive">> ELSE <<>>)

\* `strategies` after the loop over the records
RECURSIVE Strategies(_)
Strategies(rs) == IF rs = <<>> THEN <<>> ELSE VotesOf(Head(rs)) \o Strategies(Tail(rs))

\* Counter(votes)[v]
Tally(votes, v) == Cardinality({i \in 1..Len(votes) : votes[i] = v})

\* Counter(votes).most_common(1)[0][0]: the vote with the highest count,
\* the one cast first among equals
most_common(votes) ==
    votes[CHOOSE i \in 1..Len(votes) :
             /\ \A j \in 1..Len(votes) : Tally(votes, votes[j]) <= Tally(votes, votes[i])
             /\ \A j \in 1..(i - 1) : Tally(votes, votes[j]) < Tally(votes, votes[i])]

\* FuzzyAnalyzer.analyze_strategy
analyze_strategy(rs) ==
    IF rs = <<>> THEN "unknown"
    ELSE LET votes == Strategies(rs)
         IN  IF votes = <<>> THEN "unknown" ELSE most_common(votes)

\* records of the activities the classifier looks at, with and without a
\* vote, and records carrying a strategy_type or mistake_types
StrategyRecords ==
    {DefaultRecord,
     [DefaultRecord EXCEPT !.performance_metrics =
                               PM(PM(NoPM, "moves", 60), "completed", TRUE)],
     [DefaultRecord EXCEPT !.performance_metrics = PM(NoPM, "moves", 30)],
     [DefaultRecord EXCEPT !.performance_metrics =
                               PM(PM(NoPM, "moves", 50), "completed", TRUE)],
     [DefaultRecord EXCEPT !.performance_metrics = PM(NoPM, "moves", 20)],
     [DefaultRecord EXCEPT !.game_type = "Sequence"],
     [DefaultRecord EXCEPT !.game_type = "Sequence", !.mistakes = 2],
     [DefaultRecord EXCEPT !.game_type = "Sequence", !.mistakes = 3],
     [DefaultRecord EXCEPT !.game_type = "Sequence", !.mistakes = 4],
     [DefaultRecord EXCEPT !.game_type = "Memory",
                           !.performance_metrics =
                               PM(PM(NoPM, "attempts", 5), "pairs_found", 2)],
     [DefaultRecord EXCEPT !.game_type = "Memory",
                           !.performance_metrics =
                               PM(PM(NoPM, "attempts", 4), "pairs_found", 2)],
     [DefaultRecord EXCEPT !.game_type = "GoNoGo",
                           !.performance_metrics = PM(NoPM, "commission_errors", 3)],
     [DefaultRecord EXCEPT !.game_type = "GoNoGo",
                           !.performance_metrics = PM(NoPM, "commission_errors", 2)],
     [DefaultRecord EXCEPT !.game_type = "GoNoGo"],
     [DefaultRecord EXCEPT !.game_type = "Painting", !.strategy_type = "adaptive"],
     [DefaultRecord EXCEPT !.game_type = "Painting", !.strategy_type = "chaotic"],
     [DefaultRecord EXCEPT !.game_type = "Painting",
                           !.mistake_types = [inhibition |-> 2, attention |-> 1]],
     [DefaultRecord EXCEPT !.game_type = "Painting",
                           !.mistake_types = [inhibition |-> 1, attention |-> 2]],
     [DefaultRecord EXCEPT !.game_type = "Painting",
                           !.mistake_types = [inhibition |-> 1, attention |-> 1]]}

InitStrategy ==
    /\ game_results \in Lists(StrategyRecords, MaxRec)
    /\ permuted = <<>> /\ emotions = <<>> /\ metrics = <<>> /\ metrics_perm = <<>>
    /\ IdleMF /\ IdleMatch /\ IdleProfile /\ IdlePanel
    /\ pc = "strategy"

\* analyzer.analyze_strategy(game_results)
AnalyzeStrategy ==
    /\ pc = "strategy"
    /\ strategies' = Strategies(game_results)
    /\ cognitive_style' = analyze_strategy(game_results)
    /\ pc' = "classified"
    /\ UNCHANGED <<dynamics, correlation, heatmap, params_results, trends, trends_perm,
                   recordVars, mfVars, matchVars, profileVars>>

NextStrategy == AnalyzeStrategy
SpecStrategy == InitStrategy /\ [][NextStrategy]_vars

\* the votes of all records, counted signal by signal
AllVotes == Strategies(game_results)

\* C13: analyze_strategy returns a most frequent vote, returns 'unknown'
\* when there are no records or no votes, and its result is always one of
\* systematic, impulsive, adaptive, unknown.
C13_StrategyLabel ==
    pc = "classified" =>
        /\ AllVotes = <<>> <=> cognitive_style = "unknown"
        /\ AllVotes # <<>> =>
              /\ \E i \in 1..Len(AllVotes) : AllVotes[i] = cognitive_style
              /\ \A j \in 1..Len(AllVotes) :
                    Tally(AllVotes, AllVotes[j]) <= Tally(AllVotes, cognitive_style)
        /\ cognitive_style \in {"systematic", "impulsive", "adaptive", "unknown"}

\* a record whose strategy_type is none of the three styles has been
\* classified
C13_Reached ==
    /\ pc = "classified" /\ Len(game_results) = 3
    /\ game_results[1].strategy_type = "chaotic"
    /\ cognitive_style = "impulsive"

\* a record that carries mistake-type counts
CarriesCounts(r) == r.mistake_types.inhibition + r.mistake_types.attention > 0

\* records that cast no other vote: no stored strategy_type and an activity
\* without thresholds of its own
OnlyMistakeTypes(rs) ==
    \A i \in 1..Len(rs) : rs[i].strategy_type = "" /\ rs[i].game_type = "Painting"

\* C21: every record that carries mistake-type counts contributes exactly
\* one vote from the mistake-type comparison: 'impulsive' when
\* inhibition > attention, 'systematic' in every other case, equal counts
\* included.  Read on lists whose records cast no other vote.
C21_MistakeTypeVote ==
    (pc = "classified" /\ OnlyMistakeTypes(game_results)) =>
        LET carrying == SelectSeq(game_results, CarriesCounts)
        IN  strategies =
                [i \in 1..Len(carrying) |->
                    IF carrying[i].mistake_types.inhibition
                           > carrying[i].mistake_types.attention
                    THEN "impulsive" ELSE "systematic"]

\* a record with equal mistake-type counts has been classified
C21_Reached ==
    /\ pc = "classified" /\ OnlyMistakeTypes(game_results)
    /\ Len(game_results) = 2
    /\ game_results[1].mistake_types = [inhibition |-> 1, attention |-> 1]
    /\ game_results[2].mistake_types = [inhibition |-> 2, attention |-> 1]
    /\ strategies = <<"impulsive">>

\* records that cast no vote by strategy_type or mistake types
OnlyActivity(rs) ==
    \A i \in 1..Len(rs) :
        rs[i].strategy_type = "" /\ rs[i].mistake_types = [inhibition |-> 0, attention |-> 0]

\* the activity vote the thresholds give one record
ActivityVote(r) ==
    LET pm == r.performance_metrics
        Val(k) == IF k \in pm.has THEN pm[k] ELSE 0
        completed == "completed" \in pm.has /\ pm.completed
    IN  CASE r.game_type = "Sequence" ->
                 IF r.mistakes > 3 THEN <<"impulsive">>
                 ELSE IF r.mistakes <= 1 THEN <<"systematic">> ELSE <<>>
          [] r.game_type = "Puzzle" ->
                 IF Val("moves") > 50 /\ completed THEN <<"systematic">>
                 ELSE IF Val("moves") < 20 /\ ~completed THEN <<"impulsive">> ELSE <<>>
          [] r.game_type = "Memory" ->
                 IF /\ Val("attempts") > 0 /\ Val("pairs_found") > 0
                    /\ Val("attempts") > 2 * Val("pairs_found")
                 THEN <<"impulsive">> ELSE <<>>
          [] r.game_type = "GoNoGo" ->
                 IF Val("commission_errors") > 2 THEN <<"impulsive">> ELSE <<>>
          [] OTHER -> <<>>

RECURSIVE ActivityVotes(_)
ActivityVotes(rs) ==
    IF rs = <<>> THEN <<>> ELSE ActivityVote(Head(rs)) \o ActivityVotes(Tail(rs))

\* C22: the per-activity votes follow fixed thresholds: Sequence votes
\* 'impulsive' for mistakes > 3, 'systematic' for mistakes <= 1, nothing
\* for 2 or 3; Puzzle votes 'systematic' for moves > 50 and completed,
\* 'impulsive' for moves < 20 and not completed; Memory votes 'impulsive'
\* for attempts > 0, pairs_found > 0 and attempts / pairs_found > 2;
\* GoNoGo votes 'impulsive' for commission_errors > 2; any other activity
\* casts no vote.  Read on lists whose records cast no other vote.
C22_ActivityVotes ==
    (pc = "classified" /\ OnlyActivity(game_results)) =>
        strategies = ActivityVotes(game_results)

\* a Sequence record with 2 mistakes, a Memory record with 5 attempts for
\* 2 pairs and a GoNoGo record with 3 commission errors have been classified
C22_Reached ==
    /\ pc = "classified" /\ OnlyActivity(game_results)
    /\ Len(game_results) = 3
    /\ game_results[1].game_type = "Sequence" /\ game_results[1].mistakes = 2
    /\ game_results[2].game_type = "Memory"
    /\ game_results[3].game_type = "GoNoGo"
    /\ strategies = <<"impulsive", "impulsive">>

---------------------------------------------------------------------------
(* 4.6 / 3. Emotional trends and the persisted DiagnosticProfile:          *)
(* FuzzyAnalyzer.detect_emotional_trends and create_diagnostic_profile     *)

\* lines 621-629: the trend of one emotion over the date-sorted values
TrendOf(values) ==
    LET n           == Len(values)
        first_half  == Div(SumSeq(SubSeq(values, 1, n \div 2)), n \div 2)
        second_half == Div(SumSeq(SubSeq(values, n \div 2 + 1, n)), n - n \div 2)
    IN  IF QLt(QMul(first_half, Tenths(12)), second_half) THEN "increasing"
        ELSE IF QLt(second_half, QMul(first_half, Tenths(8))) THEN "decreasing"
        ELSE "stable"

InsufficientData == [trend |-> "insufficient_data"]

\* FuzzyAnalyzer.detect_emotional_trends
detect_emotional_trends(rs) ==
    IF Len(rs) < 2 THEN InsufficientData
    ELSE LET sorted_results == SortedByDate(rs)
         IN  [e \in EmotionSet |->
                 LET values == [i \in 1..Len(sorted_results) |-> sorted_results[i][e]]
                 IN  IF Len(values) >= 2 THEN TrendOf(values) ELSE "stable"]

\* records with a rising, a falling and a flat emotion
TrendRows ==
    <<DefaultRecord,
      [DefaultRecord EXCEPT !.joy = 5],
      [DefaultRecord EXCEPT !.joy = 6],
      [DefaultRecord EXCEPT !.joy = 4, !.sorrow = 2]>>

\* each of them on two of the dates
TrendRecords ==
    {[TrendRows[p[1]] EXCEPT !.date = p[2]] :
        p \in {<<1, <<1, 2, 0>>>>, <<1, <<2, 1, 0>>>>,
               <<2, <<1, 2, 0>>>>, <<2, <<1, 2, 1>>>>,
               <<3, <<1, 2, 1>>>>, <<3, <<2, 1, 0>>>>,
               <<4, <<1, 2, 0>>>>, <<4, <<2, 1, 0>>>>}}

InitTrends ==
    /\ game_results \in Lists(TrendRecords, MaxPoints)
    /\ permuted = <<>> /\ emotions = <<>> /\ metrics = <<>> /\ metrics_perm = <<>>
    /\ IdleMF /\ IdleMatch /\ IdleProfile /\ IdlePanel
    /\ pc = "trends"

\* detect_emotional_trends(game_results)
DetectEmotionalTrends ==
    /\ pc = "trends"
    /\ trends' = detect_emotional_trends(game_results)
    /\ pc' = "detected"
    /\ UNCHANGED <<dynamics, correlation, heatmap, params_results, strategies, cognitive_style, trends_perm,
                   recordVars, mfVars, matchVars, profileVars>>

\* detect_emotional_trends on the same records handed over in another order
DetectPermuted ==
    /\ pc = "detected"
    /\ \E p \in Permutations(1..Len(game_results)) :
          /\ permuted' = [i \in 1..Len(game_results) |-> game_results[p[i]]]
          /\ trends_perm' = detect_emotional_trends(permuted')
    /\ pc' = "both"
    /\ UNCHANGED <<dynamics, correlation, heatmap, params_results, strategies, cognitive_style, trends,
                   game_results, emotions, metrics, metrics_perm,
                   mfVars, matchVars, profileVars>>

NextTrends == DetectEmotionalTrends \/ DetectPermuted
SpecTrends == InitTrends /\ [][NextTrends]_vars

\* the label the halves of a value list call for: 10 * mean(second) against
\* 12 * mean(first) and 8 * mean(first), cross-multiplied
HalvesLabel(values) ==
    LET n == Len(values)
        k == n \div 2
        a == SumSeq(SubSeq(values, 1, k))
        b == SumSeq(SubSeq(values, k + 1, n))
    IN  IF 10 * b * k > 12 * a * (n - k) THEN "increasing"
        ELSE IF 10 * b * k < 8 * a * (n - k) THEN "decreasing"
        ELSE "stable"

\* C20: detect_emotional_trends returns the insufficient-data marker for
\* fewer than 2 records; otherwise, per emotion, the records are ordered by
\* date, the values split into the first floor(n/2) and the remaining ones,
\* and the label is 'increasing' if mean(second) > 1.2 * mean(first),
\* 'decreasing' if mean(second) < 0.8 * mean(first), else 'stable'; the
\* result does not depend on the order in which the records are passed.
C20_TrendLabels ==
    /\ pc \in {"detected", "both"} =>
          /\ Len(game_results) < 2 => trends = InsufficientData
          /\ Len(game_results) >= 2 =>
                /\ DOMAIN trends = EmotionSet
                /\ \A e \in EmotionSet :
                      trends[e] = HalvesLabel([i \in 1..Len(game_results) |->
                                                 ByDate(game_results)[i][e]])
    /\ pc = "both" => trends_perm = trends

\* both calls have returned for two records of one date, handed over in
\* the two orders
C20_Reached ==
    /\ pc = "both" /\ Len(game_results) = 2
    /\ game_results[1].date = game_results[2].date
    /\ permuted = <<game_results[2], game_results[1]>>
    /\ trends.joy = "increasing" /\ trends_perm.joy = "decreasing"

\* lines 671-673: emotional_profile with the 'trends' entry
EmotionalProfile(rs) ==
    LET shares == analyze_emotions(rs)
        found  == detect_emotional_trends(rs)
    IN  [k \in EmotionSet \cup {"trends"} |-> IF k = "trends" THEN found ELSE shares[k]]

\* a dict as _match_diagnoses reads it: a number per term, or a dict
TermValues(d) == [k \in DOMAIN d |-> IF k = "trends" THEN Mapping ELSE d[k]]

\* lines 676-684: profile_data
ProfileData(rs) ==
    [diagnostic_depth       |-> DictVar(calculate_diagnostic_depth(rs)),
     motivational_potential |-> DictVar(calculate_motivation(rs)),
     objectivity            |-> DictVar(calculate_objectivity(rs)),
     ecological_validity    |-> DictVar(calculate_ecological_validity(rs)),
     dynamic_assessment     |-> DictVar(calculate_dynamic_assessment(rs)),
     emotional_profile      |-> DictVar(TermValues(EmotionalProfile(rs))),
     cognitive_style        |-> LabelVar(analyze_strategy(rs))]

\* create_diagnostic_profile leaves by the exception of _match_diagnoses
create_raises(rs, diags) == rs # <<>> /\ match_raises(ProfileData(rs), diags)

InsufficientText == <<Block("none", "insufficient data")>>

\* FuzzyAnalyzer.create_diagnostic_profile: the field values of the
\* DiagnosticProfile row it writes
create_diagnostic_profile(rs, diags) ==
    IF rs = <<>>
    THEN [diagnostic_depth       |-> Dist(3, 5, 2),
          motivational_potential |-> Dist(3, 5, 2),
          objectivity            |-> Dist(1, 3, 6),
          ecological_validity    |-> Dist(2, 4, 4),
          dynamic_assessment     |-> Dist(2, 4, 4),
          cognitive_style        |-> "",
          emotional_profile      |-> analyze_emotions(<<>>),
          recommendations        |-> InsufficientText,
          detected_diagnoses     |-> <<>>]
    ELSE LET out == generate_recommendations_with_diagnoses(ProfileData(rs), diags)
         IN  [diagnostic_depth       |-> calculate_diagnostic_depth(rs),
              motivational_potential |-> calculate_motivation(rs),
              objectivity            |-> calculate_objectivity(rs),
              ecological_validity    |-> calculate_ecological_validity(rs),
              dynamic_assessment     |-> calculate_dynamic_assessment(rs),
              cognitive_style        |-> analyze_strategy(rs),
              emotional_profile      |-> EmotionalProfile(rs),
              recommendations        |-> out.recommendations,
              detected_diagnoses     |-> out.detected_codes]

\* DiagnosticProfile.objects.filter(child=child).first() under
\* Meta.ordering = ['-date_created']: the row created last
Latest(rows) == Len(rows)

\* lines 648-659 and 688-714: the child's rows after the call; the rows are
\* kept in the order of their creation
PersistProfile(rows, rs, row) ==
    IF rs = <<>> THEN Append(rows, row)                     \* objects.create
    ELSE IF rows # <<>> THEN [rows EXCEPT ![Latest(rows)] = row]   \* latest.save()
    ELSE <<row>>                                            \* objects.create

\* one or two rows per activity, with and without data
ProfileRecords ==
    {DefaultRecord,
     [DefaultRecord EXCEPT !.performance_metrics =
                               PM(PM(NoPM, "moves", 30), "completed", TRUE),
                           !.session_completed = TRUE],
     [DefaultRecord EXCEPT !.game_type = "Painting"],
     [DefaultRecord EXCEPT !.game_type = "Painting", !.drawing_data = "image", !.joy = 6],
     [DefaultRecord EXCEPT !.game_type = "Dialog", !.dialog_answers = 3],
     [DefaultRecord EXCEPT !.game_type = "Choice", !.choices = 5, !.happiness = 5],
     [DefaultRecord EXCEPT !.game_type = "Memory",
                           !.performance_metrics =
                               PM(PM(NoPM, "pairs_found", 8), "levels_completed", 4),
                           !.session_completed = TRUE],
     [DefaultRecord EXCEPT !.game_type = "Sequence", !.mistakes = 2,
                           !.performance_metrics = PM(NoPM, "level_reached", 5)],
     [DefaultRecord EXCEPT !.game_type = "Sequence", !.mistakes = 12],
     [DefaultRecord EXCEPT !.game_type = "Sort",
                           !.performance_metrics = PM(NoPM, "total", 8)]}

InitProfile ==
    /\ game_results \in Lists(ProfileRecords, MaxRec)
    /\ permuted = <<>> /\ emotions = <<>> /\ metrics = <<>> /\ metrics_perm = <<>>
    /\ scored = <<>> /\ stored = <<>> /\ profiles = <<>>
    /\ IdleMF /\ IdleMatch /\ IdlePanel
    /\ pc = "profile"

\* the five calculate_* functions applied to the child's game results
CalculateAxes ==
    /\ pc = "profile" /\ scored = <<>>
    /\ scored' = CalculateAll(game_results)
    /\ UNCHANGED <<stored, profiles, recordVars, mfVars, matchVars, panelVars, pc>>

\* analyzer.create_diagnostic_profile(child_id)
CreateDiagnosticProfile ==
    /\ \/ pc = "profile" /\ stored = <<>>
       \/ pc = "store" /\ (game_results = <<>> => Len(profiles) < MaxProfiles)
    /\ IF create_raises(game_results, catalog)
       THEN /\ pc' = "raised"
            /\ UNCHANGED <<stored, profiles>>
       ELSE /\ stored' = create_diagnostic_profile(game_results, catalog)
            /\ profiles' = PersistProfile(profiles, game_results, stored')
            /\ pc' = pc
    /\ UNCHANGED <<scored, recordVars, mfVars, matchVars, panelVars>>

NextProfile == CalculateAxes \/ CreateDiagnosticProfile
SpecProfile == InitProfile /\ [][NextProfile]_vars

\* C10: for the empty record list calculate_diagnostic_depth returns
\* {low 0.3, medium 0.5, high 0.2}, and on each of the five axes the
\* calculate_* function returns what create_diagnostic_profile stores for a
\* child without game results.
C10_OneDefaultPerAxis ==
    (pc = "profile" /\ game_results = <<>> /\ scored # <<>>) =>
        /\ scored.diagnostic_depth = Dist(3, 5, 2)
        /\ stored # <<>> => \A axis \in Axes : scored[axis] = stored[axis]

\* both the scorers and the profile creation have run on the empty list
C10_Reached ==
    /\ pc = "profile" /\ game_results = <<>> /\ scored # <<>> /\ stored # <<>>

\* C27: every crisp score is covered by a term: for a non-empty record list
\* each of the five mappings of the calculate_* functions has at least one
\* term with a degree above 0.
C27_ScoreCovered ==
    (scored # <<>> /\ game_results # <<>>) =>
        \A axis \in Axes : \E t \in DOMAIN scored[axis] : QLt(Zero, scored[axis][t])

\* the scorers have run on a non-empty list whose motivation score is 0:
\* the motivation mapping has degree 0 on every term
C27_Reached ==
    /\ scored # <<>> /\ game_results # <<>>
    /\ \A t \in DOMAIN scored.motivational_potential :
          scored.motivational_potential[t] = Zero
    /\ \E t \in DOMAIN scored.objectivity : QLt(Zero, scored.objectivity[t])

---------------------------------------------------------------------------
(* The profile of one child recomputed as game results arrive *)

\* the game results a child may add, one per date
StoreRecords ==
    {[DefaultRecord EXCEPT !.date = <<1, 2, 0>>],
     [DefaultRecord EXCEPT !.game_type = "Painting", !.drawing_data = "image",
                           !.joy = 6, !.date = <<1, 2, 1>>],
     [DefaultRecord EXCEPT !.game_type = "Sequence", !.sorrow = 3,
                           !.date = <<2, 1, 0>>]}

\* catalogs of one entry: none, one on an emotion share, one on the style,
\* one on the trends entry of the emotional profile, and the entry
\* 'impulsivity' that migration 0018 seeds
StoreCatalogs ==
    {<<>>,
     <<Diag("impulsivity", 2, <<<<<<"objectivity", "low">>, Tenths(5)>>>>)>>,
     <<Diag("d1", 2, <<<<<<"emotional_profile", "sorrow">>, Div(1, Unit)>>>>)>>,
     <<Diag("d1", 2, <<<<<<"cognitive_style", "impulsive">>, One>>>>)>>,
     <<Diag("d1", 2, <<<<<<"emotional_profile", "trends">>, Div(1, Unit)>>>>)>>}

InitStore ==
    /\ game_results = <<>>
    /\ permuted = <<>> /\ emotions = <<>> /\ metrics = <<>> /\ metrics_perm = <<>>
    /\ catalog \in StoreCatalogs
    /\ profile_data = <<>> /\ matched = <<>> /\ prev_matched = <<>>
    /\ detected_codes = <<>> /\ recommendations = <<>>
    /\ IdleMF /\ IdleProfile /\ IdlePanel
    /\ pc = "store"

\* GameResult.objects.create(user=child, ...)
AddGameResult ==
    /\ pc = "store" /\ Len(game_results) < MaxRec
    /\ \E r \in StoreRecords : game_results' = Append(game_results, r)
    /\ UNCHANGED <<permuted, emotions, metrics, metrics_perm,
                   mfVars, matchVars, profileVars, panelVars, pc>>

NextStore == AddGameResult \/ CreateDiagnosticProfile
SpecStore == InitStore /\ [][NextStore]_vars

\* C14: no entry point of the core raises for a valid record collection
\* and a catalog whose conditions map string keys to numeric thresholds:
\* the scorers, analyze_strategy, analyze_emotions, detect_emotional_trends
\* and the matcher and assembler run on the profile built from them all
\* return a value.
C14_NoEntryPointRaises == pc # "raised"

\* the whole chain has run on two records and a catalog entry and returned
C14_Reached ==
    /\ pc = "store" /\ Len(game_results) = 2 /\ catalog # <<>>
    /\ stored # <<>> /\ stored.cognitive_style = "impulsive"
    /\ stored.detected_diagnoses = <<"d1">>

\* C29: for every non-empty record list the crisp objectivity score is at
\* least 0.6, so the degree of the term 'low' is 0; create_diagnostic_profile
\* never lists the seeded code 'impulsivity' (objectivity.low >= 0.5) in
\* detected_diagnoses, for any history.
C29_ImpulsivityNeverDetected ==
    /\ game_results # <<>> =>
          /\ QLe(Tenths(6), objectivity_score(game_results))
          /\ calculate_objectivity(game_results).low = Zero
    /\ stored # <<>> =>
          /\ stored.objectivity.low = Zero \/ stored.objectivity = Dist(1, 3, 6)
          /\ \A i \in 1..Len(stored.detected_diagnoses) :
                stored.detected_diagnoses[i] # "impulsivity"

\* a profile was created from a history with a subjective record under the
\* catalog that holds the seeded entry
C29_Reached ==
    /\ pc = "store" /\ stored # <<>> /\ Len(game_results) >= 2
    /\ catalog # <<>> /\ catalog[1].code = "impulsivity"
    /\ \E i \in 1..Len(game_results) : game_results[i].game_type = "Painting"
    /\ stored.objectivity = calculate_objectivity(game_results)
    /\ stored.detected_diagnoses = <<>>

\* C18: recomputing overwrites the latest persisted profile: whatever the
\* sequence of create_diagnostic_profile calls and additions of game
\* results, calls made without game results included, the child has at
\* most one persisted profile, and it holds the most recent computation.
C18_SingleLatestProfile ==
    /\ Len(profiles) <= 1
    /\ (profiles # <<>> /\ stored # <<>>) => profiles[Latest(profiles)] = stored

\* a profile has been computed without game results and persisted
C18_Reached ==
    /\ pc = "store" /\ game_results = <<>>
    /\ Len(profiles) = 1 /\ profiles[1] = stored
    /\ stored.recommendations = InsufficientText

---------------------------------------------------------------------------
(* The assembler called on profiles that carry emotion shares *)

\* emotion shares, motivation and depth degrees around the thresholds
RecoShares == {Zero, Tenths(4), Tenths(5)}
RecoMotivation == {Zero, Tenths(6), Tenths(8)}
RecoDepth == {Zero, Tenths(5)}
RecoStyles == {"unknown", "impulsive", "systematic"}

\* the emotional_profile built from three shares; the rest of the mass is joy
ShareDict(sorrow, anger, boredom) ==
    [e \in EmotionSet |->
        IF e = "sorrow" THEN sorrow
        ELSE IF e = "anger" THEN anger
        ELSE IF e = "boredom" THEN boredom
        ELSE IF e = "joy" THEN QSub(One, QAdd(QAdd(sorrow, anger), boredom))
        ELSE Zero]

\* the keyword arguments create_diagnostic_profile passes
RecoProfiles ==
    {[diagnostic_depth       |-> DictVar([low |-> Zero, medium |-> Zero, high |-> d]),
      motivational_potential |-> DictVar([low |-> m, medium |-> Zero, high |-> Zero]),
      emotional_profile      |-> DictVar(ShareDict(s[1], s[2], s[3])),
      cognitive_style        |-> LabelVar(st)] :
        d \in RecoDepth, m \in RecoMotivation, st \in RecoStyles,
        s \in {t \in RecoShares \X RecoShares \X RecoShares :
                  QLe(QAdd(QAdd(t[1], t[2]), t[3]), One)}}

\* no entry, an entry on the style, two entries on an emotion share
RecoCatalogs ==
    {<<>>,
     <<Diag("d1", 2, <<<<<<"cognitive_style", "impulsive">>, One>>>>)>>,
     <<Diag("d1", 5, <<<<<<"emotional_profile", "sorrow">>, Tenths(4)>>>>),
       Diag("d2", 2, <<<<<<"emotional_profile", "anger">>, Tenths(4)>>>>)>>}

InitReco ==
    /\ profile_data \in RecoProfiles
    /\ catalog \in RecoCatalogs
    /\ matched = <<>> /\ prev_matched = <<>> /\ detected_codes = <<>>
    /\ recommendations = <<>>
    /\ IdleMF /\ IdleRecords /\ IdleProfile /\ IdlePanel
    /\ pc = "first"

NextReco == GenerateRecommendationsWithDiagnoses
SpecReco == InitReco /\ [][NextReco]_vars

\* the returned text contains the boundary block of the given heading
HasBoundary(id) ==
    \E i \in 1..Len(recommendations) : recommendations[i] = Block("boundary", id)

ShareOf(e) == profile_data.emotional_profile.dict[e]

\* C16: the boundary blocks follow the raw emotion shares of the profile
\* handed over: sorrow >= 0.5 gives the urgent sorrow block, 0.35 <= sorrow
\* < 0.5 the moderate one, never both; likewise anger (>= 0.5, >= 0.3),
\* boredom (>= 0.5, >= 0.35) and low motivation (>= 0.6), whatever the
\* catalog.
C16_BoundaryBlocks ==
    pc = "done1" =>
        /\ QLe(Tenths(5), ShareOf("sorrow")) => HasBoundary("sorrow >= 50%")
        /\ (QLe(Hundredths(35), ShareOf("sorrow")) /\ QLt(ShareOf("sorrow"), Tenths(5)))
              => HasBoundary("sorrow 35-50%")
        /\ ~(HasBoundary("sorrow >= 50%") /\ HasBoundary("sorrow 35-50%"))
        /\ QLe(Tenths(5), ShareOf("anger")) => HasBoundary("anger >= 50%")
        /\ (QLe(Tenths(3), ShareOf("anger")) /\ QLt(ShareOf("anger"), Tenths(5)))
              => HasBoundary("anger 30-50%")
        /\ QLe(Tenths(5), ShareOf("boredom")) => HasBoundary("boredom >= 50%")
        /\ (QLe(Hundredths(35), ShareOf("boredom")) /\ QLt(ShareOf("boredom"), Tenths(5)))
              => HasBoundary("boredom 35-50%")
        /\ QLe(Tenths(6), profile_data.motivational_potential.dict["low"])
              => HasBoundary("motivation >= 60%")

\* the assembler has run on a profile with a sorrow share of 0.5
C16_Reached ==
    /\ pc = "done1" /\ ShareOf("sorrow") = Tenths(5)
    /\ recommendations # <<>>


\* the blocks of one kind, in the order they stand in the text
BlocksOfKind(k) == SelectSeq(recommendations, LAMBDA b : b.kind = k)

KindRank(k) ==
    IF k = "diagnosis" THEN 1 ELSE IF k = "boundary" THEN 2
    ELSE IF k = "extra" THEN 3 ELSE 4

\* C17: the returned text holds the diagnosis blocks first, in the order of
\* the matches, then the boundary blocks, then the extra recommendations;
\* the single no-concerns block is returned exactly when all three groups
\* are empty.
C17_SectionOrder ==
    pc = "done1" =>
        LET boundary == generate_boundary_analysis(BoundaryKwargs(profile_data))
            extra    == generate_extra_recommendations(profile_data)
        IN  /\ \A i, j \in 1..Len(recommendations) :
                  i < j => KindRank(recommendations[i].kind)
                              <= KindRank(recommendations[j].kind)
            /\ [i \in 1..Len(BlocksOfKind("diagnosis")) |->
                    BlocksOfKind("diagnosis")[i].id] = detected_codes
            /\ BlocksOfKind("boundary") = boundary
            /\ BlocksOfKind("extra") = extra
            /\ Len(detected_codes) = Len(matched)
            /\ (recommendations = NoConcerns)
                  <=> (matched = <<>> /\ boundary = <<>> /\ extra = <<>>)
            /\ recommendations # NoConcerns => BlocksOfKind("none") = <<>>

\* a text with two diagnosis blocks, a boundary block and extra lines
C17_Reached ==
    /\ pc = "done1" /\ Len(matched) = 2
    /\ BlocksOfKind("boundary") # <<>> /\ BlocksOfKind("extra") # <<>>

\* C30: whenever the no-concerns text is returned the code list is empty,
\* the degree of diagnostic_depth 'high' is at least 0.5 and the cognitive
\* style is none of impulsive, systematic, adaptive; whenever a diagnosis is
\* matched the text holds its block and is not the no-concerns text.
C30_NoConcernsOnlyWhenClear ==
    pc = "done1" =>
        /\ recommendations = NoConcerns =>
              /\ detected_codes = <<>>
              /\ QLe(Tenths(5), profile_data.diagnostic_depth.dict.high)
              /\ profile_data.cognitive_style.label
                     \notin {"impulsive", "systematic", "adaptive"}
        /\ matched # <<>> =>
              /\ \A i \in 1..Len(matched) :
                    \E j \in 1..Len(recommendations) :
                        recommendations[j] = Block("diagnosis", matched[i].diag.code)
              /\ recommendations # NoConcerns
              /\ BlocksOfKind("none") = <<>>

\* the no-concerns text was returned under a catalog that holds entries
C30_Reached ==
    /\ pc = "done1" /\ recommendations = NoConcerns
    /\ Len(catalog) = 2 /\ matched = <<>>

---------------------------------------------------------------------------
(* 4.10 HeatmapBuilder: diagnostic_panel.get_heatmap_data *)

QAbs(q) == IF QLt(q, Zero) THEN QNeg(q) ELSE q

\* round(q, 2) as a number of hundredths: the nearest one, ties to even
RoundHundredths(q) ==
    LET k    == (200 * q[1] + q[2]) \div (2 * q[2])
        tied == (200 * q[1] + q[2]) % (2 * q[2]) = 0
    IN  IF tied /\ k % 2 # 0 THEN k - 1 ELSE k

systems == <<"cognitive", "emotional", "behavioral", "regulatory", "social">>
heat_indicators == <<"activity", "stability", "adaptivity">>

\* DiagnosticProfile.get_radar_data: the degree of the top term, times 100
get_radar_data(profile) ==
    [objectivity         |-> QMul(profile.objectivity.high, Num(100)),
     ecological_validity |-> QMul(profile.ecological_validity.high, Num(100)),
     dynamic_assessment  |-> QMul(profile.dynamic_assessment.high, Num(100))]

\* lines 459-463: the five system values
SystemValues(profile) ==
    LET ep == profile.emotional_profile
        rd == get_radar_data(profile)
        Centred(v) == QSub(QDiv(v, Num(50)), One)
    IN  <<QMul(Centred(rd.objectivity), Tenths(15)),
          QMul(QSub(QDiv(QAdd(ep.joy, ep.happiness), Tenths(3)), One), Tenths(12)),
          QMul(Centred(rd.ecological_validity), One),
          QMul(Centred(rd.dynamic_assessment), Tenths(13)),
          QMul(QSub(QDiv(ep.love, Tenths(2)), One), One)>>

\* cell_style(val), val in hundredths: the colour and its alpha (in
\* hundredths, as '{a:.2f}' prints it) or grey level
cell_style(val) ==
    LET v == Hundredths(val)
    IN  IF QLe(v, Tenths(-3))
        THEN [colour |-> "blue",
              level  |-> RoundHundredths(QMin(Hundredths(95),
                            QAdd(Hundredths(25),
                                 QMul(Tenths(7), QMin(One, QDiv(QNeg(v), Tenths(12)))))))]
        ELSE IF QLe(Tenths(3), v)
        THEN [colour |-> "red",
              level  |-> RoundHundredths(QMin(Hundredths(95),
                            QAdd(Hundredths(25),
                                 QMul(Tenths(7), QMin(One, QDiv(v, Tenths(12)))))))]
        ELSE [colour |-> "grey",
              level  |-> LET g == QSub(Num(240), QDiv(QMul(Num(40), QAbs(v)), Tenths(3)))
                         IN  g[1] \div g[2]]

\* cell_interpretation(val, system, indicator): the sentence chosen and the
\* value it prints
cell_interpretation(val) ==
    LET v == Hundredths(val)
    IN  [text  |-> IF QLt(v, Tenths(-7)) THEN "far below the norm"
                   ELSE IF QLt(v, Tenths(-3)) THEN "below the norm"
                   ELSE IF QLe(v, Tenths(3)) THEN "within the norm"
                   ELSE IF QLe(v, Tenths(7)) THEN "above the norm"
                   ELSE "far above the norm",
         value |-> val]

\* diagnostic_panel.get_heatmap_data; noise[i][j] is the value
\* np.random.uniform(-0.3, 0.3) returned for cell (i, j)
get_heatmap_data(profile, noise) ==
    LET sys_vals == SystemValues(profile)
        matrix ==
            [i \in 1..Len(systems) |->
                [j \in 1..Len(heat_indicators) |->
                    RoundHundredths(QAdd(sys_vals[i], noise[i][j]))]]
        AnyLow(i)  == \E j \in 1..Len(heat_indicators) : matrix[i][j] < -30
        AnyHigh(i) == \E j \in 1..Len(heat_indicators) : matrix[i][j] > 30
    IN  [matrix |-> matrix,
         rows   |->
            [i \in 1..Len(systems) |->
                [system |-> systems[i],
                 values |-> matrix[i],
                 cells  |-> [j \in 1..Len(heat_indicators) |->
                               [value          |-> matrix[i][j],
                                style          |-> cell_style(matrix[i][j]),
                                interpretation |-> cell_interpretation(matrix[i][j])]]]],
         low_systems  |-> SelectSeq(systems, LAMBDA sname :
                              \E i \in 1..Len(systems) : systems[i] = sname /\ AnyLow(i)),
         high_systems |-> SelectSeq(systems, LAMBDA sname :
                              \E i \in 1..Len(systems) : systems[i] = sname /\ AnyHigh(i))]

\* values np.random.uniform(-0.3, 0.3) can return, the ends included as
\* the values that round to them
Noise == {Tenths(-3), Tenths(-1), Zero, Tenths(1), Tenths(3)}

\* the draws of the fifteen cells; three independent draws are spread over
\* the cells so that every row holds all three
NoiseMatrices ==
    {[i \in 1..5 |-> [j \in 1..3 |-> n[((i + j) % 3) + 1]]] : n \in [1..3 -> Noise]}

\* emotion shares: none recorded; joy + happiness = 0.3 and love = 0.2, the
\* centres of their scales; mostly joy
HeatShares ==
    {[e \in EmotionSet |-> Zero],
     [e \in EmotionSet |->
         IF e \in {"joy", "happiness"} THEN Hundredths(15)
         ELSE IF e = "love" THEN Tenths(2)
         ELSE IF e = "sorrow" THEN Tenths(5) ELSE Zero],
     [e \in EmotionSet |->
         IF e = "joy" THEN Tenths(5)
         ELSE IF e \in {"happiness", "love"} THEN Hundredths(25) ELSE Zero]}

\* persisted profiles: the top-term degrees and the shares the heatmap reads
HeatmapProfiles ==
    {[objectivity         |-> Dist(0, 0, o),
      ecological_validity |-> Dist(0, 0, e),
      dynamic_assessment  |-> Dist(0, 0, d),
      emotional_profile   |-> sh] :
        o \in {5, 10}, e \in {3, 7}, d \in {0, 5}, sh \in HeatShares}

InitHeatmap ==
    /\ stored \in HeatmapProfiles
    /\ scored = <<>> /\ profiles = <<stored>>
    /\ IdleMF /\ IdleMatch /\ IdleRecords /\ IdlePanel
    /\ pc = "heatmap"

\* get_heatmap_data(gr_list, profile)
GetHeatmapData ==
    /\ pc = "heatmap"
    /\ \E noise \in NoiseMatrices : heatmap' = get_heatmap_data(stored, noise)
    /\ pc' = "drawn"
    /\ UNCHANGED <<dynamics, correlation, params_results, strategies, cognitive_style,
                   trends, trends_perm, recordVars, mfVars, matchVars, profileVars>>

NextHeatmap == GetHeatmapData
SpecHeatmap == InitHeatmap /\ [][NextHeatmap]_vars

\* the cells of the returned rows
Cells == {heatmap.rows[i].cells[j] : i \in 1..5, j \in 1..3}

\* C24: get_heatmap_data returns a 5x3 matrix; every cell falls in exactly
\* one of the bands v < -0.7, -0.7 <= v < -0.3, -0.3 <= v <= 0.3,
\* 0.3 < v <= 0.7, v > 0.7, and its colour matches its interpretation: grey
\* for a cell within the norm, blue for one below the norm, red for one
\* above the norm, at v = -0.3 and v = 0.3 too.
C24_StyleMatchesInterpretation ==
    pc = "drawn" =>
        /\ Len(heatmap.matrix) = 5
        /\ \A i \in 1..5 : Len(heatmap.matrix[i]) = 3
        /\ \A c \in Cells :
              /\ c.interpretation.text =
                    (IF c.value < -70 THEN "far below the norm"
                     ELSE IF c.value < -30 THEN "below the norm"
                     ELSE IF c.value <= 30 THEN "within the norm"
                     ELSE IF c.value <= 70 THEN "above the norm"
                     ELSE "far above the norm")
              /\ c.style.colour =
                    (IF c.interpretation.text = "within the norm" THEN "grey"
                     ELSE IF c.interpretation.text \in {"below the norm", "far below the norm"}
                     THEN "blue" ELSE "red")

\* a heatmap with a cell at -0.3, a cell at 0.3 and cells in the outer bands
C24_Reached ==
    /\ pc = "drawn"
    /\ \E c \in Cells : c.value = -30 /\ c.style.colour = "blue"
    /\ \E c \in Cells : c.value = 30 /\ c.style.colour = "red"
    /\ \E c \in Cells : c.value < -70
    /\ \E c \in Cells : c.value > 70


(***************************************************************************)
(* 4.11 PanelAnalysis: diagnostic_panel.get_fuzzy_analysis_for_panel       *)
(***************************************************************************)

\* the breakpoints of DIAGNOSTIC_PARAMETERS are multiples of 0.05; a feature
\* value is carried as floor(value * Scale) with a flag telling whether the
\* product is an integer, which decides every comparison with a breakpoint
\* and every rounding of a degree to two decimals exactly
Scale == 4000

\* DIAGNOSTIC_PARAMETERS, in dictionary order; breakpoints in units of 0.05
DIAGNOSTIC_PARAMETERS ==
    << [param_id |-> "impulsivity",
        terms |-> << [term |-> "low",    mf |-> <<0, 0, 5, 8>>],
                     [term |-> "medium", mf |-> <<5, 8, 12, 15>>],
                     [term |-> "high",   mf |-> <<12, 15, 20, 20>>] >>],
       [param_id |-> "cognitive_activity",
        terms |-> << [term |-> "exploring", mf |-> <<0, 0, 6, 10>>],
                     [term |-> "directed",  mf |-> <<6, 10, 14, 17>>],
                     [term |-> "dependent", mf |-> <<14, 17, 20, 20>>] >>],
       [param_id |-> "strategy",
        terms |-> << [term |-> "systematic", mf |-> <<0, 0, 4, 7>>],
                     [term |-> "impulsive",  mf |-> <<4, 7, 12, 16>>],
                     [term |-> "adaptive",   mf |-> <<10, 14, 20, 20>>] >>],
       [param_id |-> "cognitive_control",
        terms |-> << [term |-> "stable",      mf |-> <<0, 0, 6, 10>>],
                     [term |-> "variable",    mf |-> <<6, 10, 14, 17>>],
                     [term |-> "exhaustible", mf |-> <<14, 17, 20, 20>>] >>],
       [param_id |-> "anxiety",
        terms |-> << [term |-> "low",      mf |-> <<0, 0, 5, 8>>],
                     [term |-> "moderate", mf |-> <<5, 8, 12, 15>>],
                     [term |-> "high",     mf |-> <<12, 15, 20, 20>>] >>] >>

\* MF_CLINICAL_GUIDE: the (parameter, term) pairs that have an entry under
\* 'possible_causes' and under 'recommendations' (the same pairs for both);
\* 'child_impact' and pdata['interpretations'] have an entry for every term
MF_CLINICAL_GUIDE ==
    { <<"impulsivity", "high">>, <<"impulsivity", "low">>,
      <<"cognitive_activity", "dependent">>, <<"cognitive_activity", "exploring">>,
      <<"strategy", "impulsive">>,
      <<"cognitive_control", "exhaustible">>, <<"cognitive_control", "variable">>,
      <<"anxiety", "high">> }

\* floor(sqrt(s)) for 0 <= s <= Scale^2
RECURSIVE ISqrt(_, _, _)
ISqrt(s, lo, hi) ==
    IF lo = hi THEN lo
    ELSE LET mid == (lo + hi + 1) \div 2
         IN  IF mid * mid <= s THEN ISqrt(s, mid, hi) ELSE ISqrt(s, lo, mid - 1)

\* x = metrics.get(param_id, 0.5); cognitive_control is the root of the
\* carried square
FeatureValue(m, param_id) ==
    IF param_id = "cognitive_control"
    THEN LET q  == m.cognitive_control_sq
             n  == q[1]  d == q[2]
             r0 == n % d
             q1 == (Scale * r0) \div d   r1 == (Scale * r0) % d
             q2 == (Scale * r1) \div d   r2 == (Scale * r1) % d
             s  == Scale * Scale * (n \div d) + Scale * q1 + q2
             rt == ISqrt(s, 0, Scale)
         IN  [floor |-> rt, exact |-> r2 = 0 /\ rt * rt = s]
    ELSE LET q == m[param_id]
         IN  [floor |-> (Scale * q[1]) \div q[2], exact |-> (Scale * q[1]) % q[2] = 0]

\* comparisons of a feature value with t / Scale
AtMost(v, t)  == v.floor < t \/ (v.floor = t /\ v.exact)
AtLeast(v, t) == v.floor >= t

\* the largest k in lo..hi whose rounding threshold the value has passed on
\* an edge that starts at base/Scale and runs s/Scale per unit of degree
\* (s > 0 rising, s < 0 falling); lo is known to qualify
EdgePassed(v, base, s, k) ==
    LET t == base + (s * (2 * k - 1)) \div 200
    IN  \* s * (2k - 1) is a multiple of 200: s is a multiple of Scale / 20
        IF s > 0 THEN AtLeast(v, t) ELSE AtMost(v, t)
RECURSIVE EdgeSteps(_, _, _, _, _)
EdgeSteps(v, base, s, lo, hi) ==
    IF lo = hi THEN lo
    ELSE LET mid == (lo + hi + 1) \div 2
         IN  IF EdgePassed(v, base, s, mid) THEN EdgeSteps(v, base, s, mid, hi)
             ELSE EdgeSteps(v, base, s, lo, mid - 1)

\* round((x - base) / s, 2) in hundredths, halves to the even hundredth
RoundedEdge(v, base, s) ==
    LET k == EdgeSteps(v, base, s, 0, 100)
        t == base + (s * (2 * k - 1)) \div 200
    IN  IF k > 0 /\ k % 2 = 1 /\ v.exact /\ v.floor = t THEN k - 1 ELSE k

\* round(compute_membership(mf, x), 2) in hundredths; bp holds the breakpoints
RoundedMembership(bp, v) ==
    LET u == Scale \div 20
        a == bp[1] * u  b == bp[2] * u  c == bp[3] * u  d == bp[4] * u
    IN  IF AtMost(v, a) \/ AtLeast(v, d) THEN 0
        ELSE IF ~AtMost(v, a) /\ ~AtLeast(v, b)
             THEN (IF b # a THEN RoundedEdge(v, a, b - a) ELSE 100)
        ELSE IF AtLeast(v, b) /\ AtMost(v, c) THEN 100
        ELSE IF ~AtMost(v, c) /\ ~AtLeast(v, d)
             THEN (IF d # c THEN RoundedEdge(v, d, c - d) ELSE 100)
        ELSE 0

Dominant_first(terms_res) == terms_res[1]
\* max(terms_res.items(), key=lambda t: t[1]): the first entry that no
\* entry exceeds
Dominant(terms_res) ==
    LET i == CHOOSE j \in 1..Len(terms_res) :
                 /\ \A k \in 1..Len(terms_res) : terms_res[k].mu <= terms_res[j].mu
                 /\ \A k \in 1..(j - 1) : terms_res[k].mu < terms_res[j].mu
    IN  terms_res[i]

\* one entry of params_results
ParamResult(pdata, m) ==
    LET v         == FeatureValue(m, pdata.param_id)
        terms_res == [i \in 1..Len(pdata.terms) |->
                         [term |-> pdata.terms[i].term,
                          mu   |-> RoundedMembership(pdata.terms[i].mf, v)]]
        dominant  == Dominant(terms_res)
        dom_term  == dominant.term
        guided    == <<pdata.param_id, dom_term>> \in MF_CLINICAL_GUIDE
    IN  [param_id        |-> pdata.param_id,
         value           |-> v,
         memberships     |-> terms_res,
         dominant_term   |-> dom_term,
         dominant_mu     |-> dominant.mu,
         interpretation  |-> <<"interpretations", pdata.param_id, dom_term>>,
         child_impact    |-> <<"child_impact", pdata.param_id, dom_term>>,
         possible_causes |-> IF guided THEN <<"possible_causes", pdata.param_id, dom_term>>
                             ELSE <<>>,
         recommendations |-> IF guided THEN <<"recommendations", pdata.param_id, dom_term>>
                             ELSE <<>>]

\* get_fuzzy_analysis_for_panel: the params_results part of what it returns
get_fuzzy_analysis_for_panel(rs) ==
    LET m == extract_game_metrics(rs)
    IN  [i \in 1..Len(DIAGNOSTIC_PARAMETERS) |-> ParamResult(DIAGNOSTIC_PARAMETERS[i], m)]

\* get_fuzzy_analysis_for_panel(analyzer, profile, game_results, patient)
GetFuzzyAnalysisForPanel ==
    /\ pc = "metrics"
    /\ params_results' = get_fuzzy_analysis_for_panel(game_results)
    /\ pc' = "analysed"
    /\ UNCHANGED <<mfVars, matchVars, recordVars, profileVars,
                   dynamics, correlation, heatmap, strategies, cognitive_style,
                   trends, trends_perm>>

NextAnalysis == GetFuzzyAnalysisForPanel

SpecAnalysis == InitMetrics /\ [][NextAnalysis]_vars

\* C26: for each of the five parameters one degree is recorded per term, the
\* dominant term carries the maximum of the recorded degrees, and the
\* interpretation, child impact, causes and recommendations are the entries
\* keyed by the parameter and the dominant term, or empty without an entry
C26_DominantTermAndGuidance ==
    pc = "analysed" =>
        /\ Len(params_results) = 5
        /\ \A i \in 1..5 :
              LET r == params_results[i]
                  p == DIAGNOSTIC_PARAMETERS[i]
                  g == <<p.param_id, r.dominant_term>> \in MF_CLINICAL_GUIDE
              IN  /\ r.param_id = p.param_id
                  /\ Len(r.memberships) = Len(p.terms)
                  /\ \A j \in 1..Len(p.terms) : r.memberships[j].term = p.terms[j].term
                  /\ \E j \in 1..Len(p.terms) :
                        /\ r.memberships[j].term = r.dominant_term
                        /\ r.memberships[j].mu = r.dominant_mu
                  /\ \A j \in 1..Len(p.terms) : r.memberships[j].mu <= r.dominant_mu
                  /\ r.interpretation = <<"interpretations", p.param_id, r.dominant_term>>
                  /\ r.child_impact = <<"child_impact", p.param_id, r.dominant_term>>
                  /\ r.possible_causes =
                        (IF g THEN <<"possible_causes", p.param_id, r.dominant_term>> ELSE <<>>)
                  /\ r.recommendations =
                        (IF g THEN <<"recommendations", p.param_id, r.dominant_term>> ELSE <<>>)

\* an analysis where a parameter has two terms with positive degrees, one
\* dominant term has guidance and another has none
C26_Reached ==
    /\ pc = "analysed"
    /\ \E i \in 1..5 : \E j, k \in 1..3 :
          /\ j # k
          /\ params_results[i].memberships[j].mu > 0
          /\ params_results[i].memberships[k].mu > params_results[i].memberships[j].mu
    /\ \E i \in 1..5 : params_results[i].possible_causes # <<>>
    /\ \E i \in 1..5 : params_results[i].possible_causes = <<>>

===========================================================================
